---------------------------- MODULE Spec2Model ----------------------------
(***************************************************************************)
(* Turn-based logistics engine of aetherfall (src/model.py) together with  *)
(* the pause commands of src/commands.py, the project tree of              *)
(* src/tasks_loader.py and src/project_manager.py, and the unit loader of  *)
(* src/config_loaders.py.                                                  *)
(*                                                                         *)
(* Python dicts are sequences of [k, v] entries in insertion order.  None  *)
(* is the string "None".  A unit object is named by its registry key, so   *)
(* two links to the same key alias the same inventory, as in the source.   *)
(***************************************************************************)
EXTENDS Integers, Sequences, FiniteSets, TLC

VARIABLES
    units,      \* GameState.units: unit id -> ProcessingUnit
    unit_keys,  \* insertion order of the GameState.units dict
    events,     \* GameState.events
    paused,     \* GameState.paused
    sim_turn,   \* GameState.sim_turn
    projects,   \* GameState.projects: the project / goal / task tree
    config,     \* the parsed configuration a loader has still to install
    now,        \* the wall clock read by GameState.log
    ncalls,     \* commands and direct inventory calls made so far (bounds the run)
    last,       \* history: the operation just performed, the state it started from
                \* and, for a turn, what each visited unit did
    nticks,     \* history: tick_turn calls made while paused was false
    logged,     \* history: every entry ever passed to GameState.log, in order
    pause_mark, \* history: the state before the latest pause, the tick_turn
                \* calls made during it and those made since it ended
    twin,       \* a second run of the same GameState (specification SpecTwin)
    driver      \* main's loop: its position, turn_accum and the turn under way

vars == <<units, unit_keys, events, paused, sim_turn, projects, config, now, ncalls,
          last, nticks, logged, pause_mark, twin, driver>>

None == "None"

(***************************************************************************)
(* Bounds of the model.                                                    *)
(***************************************************************************)
MaxTurn == 4       \* unpaused turns per run
MaxCmds == 2       \* pause commands per run
MaxDirect == 1     \* direct inv_add / inv_remove calls per run
MaxClock == 1      \* clock readings are 0..MaxClock
MaxArg == 2        \* direct inv_add / inv_remove quantities are -MaxArg..MaxArg
MaxPausedTicks == 3 \* tick_turn calls per pause
MaxToggles == 2    \* toggle_task calls per run
MaxCfgUnits == 2   \* units in a configuration handed to load_units
MaxFrames == 2     \* frames of main's loop per run
MaxDt == 4         \* longest frame, in quarter seconds

LogCap == 300

Resources == {"Wood", "Iron", "Steel"}

(***************************************************************************)
(* dict helpers                                                            *)
(***************************************************************************)
Range(seq) == {seq[i] : i \in DOMAIN seq}

DictKeys(d) == {d[i].k : i \in DOMAIN d}

DictGet(d, key, default) ==
    IF key \in DictKeys(d)
    THEN d[CHOOSE i \in DOMAIN d : d[i].k = key].v
    ELSE default

\* d[key] = val: an existing key keeps its position, a new key goes last
DictSet(d, key, val) ==
    IF key \in DictKeys(d)
    THEN [i \in DOMAIN d |-> IF d[i].k = key THEN [k |-> key, v |-> val] ELSE d[i]]
    ELSE Append(d, [k |-> key, v |-> val])

DictPop(d, key) == SelectSeq(d, LAMBDA e : e.k # key)

(***************************************************************************)
(* ProcessingUnit.inv_get / inv_add / inv_remove on an inventory dict      *)
(***************************************************************************)
inv_get(inventory, item) == DictGet(inventory, item, 0)

\* drops the entry only when the quantity is exactly 0
inv_add_pop_zero(inventory, item, qty) ==
    IF qty = 0
    THEN inventory
    ELSE LET d == DictSet(inventory, item, inv_get(inventory, item) + qty)
         IN  IF DictGet(d, item, 0) = 0 THEN DictPop(d, item) ELSE d

inv_add(inventory, item, qty) ==
    IF qty = 0
    THEN inventory
    ELSE LET d == DictSet(inventory, item, inv_get(inventory, item) + qty)
         IN  IF DictGet(d, item, 0) <= 0 THEN DictPop(d, item) ELSE d

\* subtracts without testing the current quantity
inv_remove_unguarded(inventory, item, qty) ==
    [ok |-> TRUE, inventory |-> inv_add(inventory, item, -qty)]

\* returns the bool and the inventory after the call
inv_remove(inventory, item, qty) ==
    IF inv_get(inventory, item) < qty
    THEN [ok |-> FALSE, inventory |-> inventory]
    ELSE [ok |-> TRUE, inventory |-> inv_add(inventory, item, -qty)]

(***************************************************************************)
(* GameState.log and GameState.get_unit                                    *)
(***************************************************************************)
LastN(seq, n) ==
    IF Len(seq) <= n THEN seq ELSE SubSeq(seq, Len(seq) - n + 1, Len(seq))

\* the truncation keeps the first LogCap entries instead of the last
log_keeps_oldest(evs, stamp, msg) ==
    LET appended == Append(evs, [stamp |-> stamp, msg |-> msg])
    IN  IF Len(appended) > LogCap THEN SubSeq(appended, 1, LogCap) ELSE appended

log(evs, stamp, msg) ==
    LET appended == Append(evs, [stamp |-> stamp, msg |-> msg])
    IN  IF Len(appended) > LogCap THEN LastN(appended, LogCap) ELSE appended

get_unit(us, unit_id) ==
    IF unit_id = None \/ unit_id = ""
    THEN None
    ELSE IF unit_id \in DOMAIN us THEN unit_id ELSE None


(***************************************************************************)
(* Simulation: one turn.  A turn threads s = [units, events, out] through  *)
(* the units; out collects the messages logged so far by the operation.    *)
(***************************************************************************)
Msg(kind, unit, item, src, dst, produced) ==
    [kind |-> kind, unit |-> unit, item |-> item, src |-> src, dst |-> dst,
     produced |-> produced]

Emit(s, stamp, msg) ==
    [s EXCEPT !.events = log(@, stamp, msg), !.out = Append(@, msg)]

Truthy(id) == id # None /\ id # ""

HasRecipe(u) == u.recipe.name # None

Max(a, b) == IF a >= b THEN a ELSE b

\* sorted(s.units.keys()): the ids are compared as strings; IdOrder lists the
\* ids of the model in that order
IdOrder == <<"a", "b", "c">>

\* the units are visited in the insertion order of the registry
Sorted_insertion_order(keys) == keys

\* the units are visited in descending id order
Sorted_descending(keys) ==
    LET up == SelectSeq(IdOrder, LAMBDA id : id \in Range(keys))
    IN  [i \in DOMAIN up |-> up[Len(up) + 1 - i]]

Sorted(keys) == SelectSeq(IdOrder, LAMBDA id : id \in Range(keys))

\* the preferred resource is ignored: always the first positive entry
choose_transfer_item_unlocked(inventory, preferred) ==
    LET avail == {i \in DOMAIN inventory : inventory[i].v > 0}
    IN  IF avail = {}
        THEN None
        ELSE inventory[CHOOSE i \in avail : \A j \in avail : i <= j].k

choose_transfer_item(inventory, preferred) ==
    IF Truthy(preferred) /\ inv_get(inventory, preferred) > 0
    THEN preferred
    ELSE LET avail == {i \in DOMAIN inventory : inventory[i].v > 0}
         IN  IF avail = {}
             THEN None
             ELSE inventory[CHOOSE i \in avail : \A j \in avail : i <= j].k

\* the destination is credited but the source is never debited
MoveOne_no_debit(s, stamp, src, dst, item, msg) ==
    LET us2 == [s.units EXCEPT ![dst].inventory = inv_add(@, item, 1)]
    IN  Emit([s EXCEPT !.units = us2], stamp, msg)

\* the move is made but no log line is written
MoveOne_no_log(s, stamp, src, dst, item, msg) ==
    LET r == inv_remove(s.units[src].inventory, item, 1)
    IN  IF r.ok
        THEN LET us1 == [s.units EXCEPT ![src].inventory = r.inventory]
                 us2 == [us1 EXCEPT ![dst].inventory = inv_add(@, item, 1)]
             IN  [s EXCEPT !.units = us2]
        ELSE s

\* the destination is credited on the inventory it had before the debit
MoveOne_stale_dst(s, stamp, src, dst, item, msg) ==
    LET r == inv_remove(s.units[src].inventory, item, 1)
    IN  IF r.ok
        THEN LET us1 == [s.units EXCEPT ![src].inventory = r.inventory]
                 us2 == [us1 EXCEPT ![dst].inventory =
                                       inv_add(s.units[dst].inventory, item, 1)]
             IN  Emit([s EXCEPT !.units = us2], stamp, msg)
        ELSE s

\* src.inv_remove(item, 1), then dst.inv_add(item, 1) and one log line
MoveOne(s, stamp, src, dst, item, msg) ==
    LET r == inv_remove(s.units[src].inventory, item, 1)
    IN  IF r.ok
        THEN LET us1 == [s.units EXCEPT ![src].inventory = r.inventory]
                 us2 == [us1 EXCEPT ![dst].inventory = inv_add(@, item, 1)]
             IN  Emit([s EXCEPT !.units = us2], stamp, msg)
        ELSE s

\* an abandoned transfer is reported in the log
do_transfer_reports_abandon(s, uid, stamp) ==
    LET u == s.units[uid]
        src == get_unit(s.units, u.input_id)
        dst == get_unit(s.units, u.output_id)
        stalled == Msg("stalled", u.name, None, None, None, <<>>)
    IN  IF src = None \/ dst = None
        THEN Emit(s, stamp, stalled)
        ELSE LET item == choose_transfer_item(s.units[src].inventory,
                             IF HasRecipe(u) THEN u.recipe.transfer_resource ELSE None)
             IN  IF item = None
                 THEN Emit(s, stamp, stalled)
                 ELSE MoveOne(s, stamp, src, dst, item,
                              Msg("moved", u.name, item, s.units[src].name,
                                  s.units[dst].name, <<>>))

do_transfer(s, uid, stamp) ==
    LET u == s.units[uid]
        src == get_unit(s.units, u.input_id)
        dst == get_unit(s.units, u.output_id)
    IN  IF src = None \/ dst = None
        THEN s
        ELSE LET item == choose_transfer_item(s.units[src].inventory,
                             IF HasRecipe(u) THEN u.recipe.transfer_resource ELSE None)
             IN  IF item = None
                 THEN s
                 ELSE MoveOne(s, stamp, src, dst, item,
                              Msg("moved", u.name, item, s.units[src].name,
                                  s.units[dst].name, <<>>))

\* source and destination are swapped: the item is drawn from the output unit
do_pile_output_reversed(s, uid, stamp) ==
    LET pile == s.units[uid]
        dst == get_unit(s.units, pile.output_id)
    IN  IF dst = None
        THEN s
        ELSE LET item == choose_transfer_item(s.units[dst].inventory,
                             IF HasRecipe(pile) THEN pile.recipe.transfer_resource ELSE None)
             IN  IF item = None
                 THEN s
                 ELSE MoveOne(s, stamp, dst, uid, item,
                              Msg("output", pile.name, item, pile.name,
                                  s.units[dst].name, <<>>))

\* a pile whose output cannot happen is marked Stalled
do_pile_output_stalls(s, uid, stamp) ==
    LET pile == s.units[uid]
        dst == get_unit(s.units, pile.output_id)
        stalled == [s EXCEPT !.units[uid].status = "Stalled"]
    IN  IF dst = None
        THEN stalled
        ELSE LET item == choose_transfer_item(pile.inventory,
                             IF HasRecipe(pile) THEN pile.recipe.transfer_resource ELSE None)
             IN  IF item = None
                 THEN stalled
                 ELSE MoveOne(s, stamp, uid, dst, item,
                              Msg("output", pile.name, item, pile.name,
                                  s.units[dst].name, <<>>))

do_pile_output(s, uid, stamp) ==
    LET pile == s.units[uid]
        dst == get_unit(s.units, pile.output_id)
    IN  IF dst = None
        THEN s
        ELSE LET item == choose_transfer_item(pile.inventory,
                             IF HasRecipe(pile) THEN pile.recipe.transfer_resource ELSE None)
             IN  IF item = None
                 THEN s
                 ELSE MoveOne(s, stamp, uid, dst, item,
                              Msg("output", pile.name, item, pile.name,
                                  s.units[dst].name, <<>>))

RECURSIVE ConsumeInputs(_, _, _)
ConsumeInputs(inventory, inputs, i) ==
    IF i > Len(inputs)
    THEN inventory
    ELSE ConsumeInputs(inv_remove(inventory, inputs[i].k, inputs[i].v).inventory,
                       inputs, i + 1)

RECURSIVE ProduceOutputs(_, _, _)
ProduceOutputs(inventory, outputs, i) ==
    IF i > Len(outputs)
    THEN inventory
    ELSE ProduceOutputs(inv_add(inventory, outputs[i].k, outputs[i].v), outputs, i + 1)

\* satisfied as soon as one input is available
InputsAvailable_any(inventory, inputs) ==
    \E i \in DOMAIN inputs : ~(inv_get(inventory, inputs[i].k) < inputs[i].v)

InputsAvailable(inventory, inputs) ==
    \A i \in DOMAIN inputs : ~(inv_get(inventory, inputs[i].k) < inputs[i].v)

\* reports the shortfall in the log instead of returning silently
do_crafting_log_shortfall(s, uid, stamp) ==
    LET u == s.units[uid]
        r == u.recipe
    IN  IF ~HasRecipe(u)
        THEN s
        ELSE IF ~InputsAvailable(u.inventory, r.inputs)
        THEN Emit(s, stamp, Msg("not enough inputs", u.name, None, None, None, <<>>))
        ELSE LET consumed == ConsumeInputs(u.inventory, r.inputs, 1)
                 produced == ProduceOutputs(consumed, r.outputs, 1)
             IN  Emit([s EXCEPT !.units[uid].inventory = produced], stamp,
                      Msg("crafted", u.name, None, None, None, r.outputs))

\* the outputs are forwarded to the unit named by output_id when it resolves
do_crafting_forwards(s, uid, stamp) ==
    LET u == s.units[uid]
        r == u.recipe
        dst == get_unit(s.units, u.output_id)
        to == IF dst = None THEN uid ELSE dst
    IN  IF ~HasRecipe(u)
        THEN s
        ELSE IF ~InputsAvailable(u.inventory, r.inputs)
        THEN s
        ELSE LET us1 == [s.units EXCEPT ![uid].inventory = ConsumeInputs(@, r.inputs, 1)]
                 us2 == [us1 EXCEPT ![to].inventory = ProduceOutputs(@, r.outputs, 1)]
             IN  Emit([s EXCEPT !.units = us2], stamp,
                      Msg("crafted", u.name, None, None, None, r.outputs))

do_crafting(s, uid, stamp) ==
    LET u == s.units[uid]
        r == u.recipe
    IN  IF ~HasRecipe(u)
        THEN s
        ELSE IF ~InputsAvailable(u.inventory, r.inputs)
        THEN s
        ELSE LET consumed == ConsumeInputs(u.inventory, r.inputs, 1)
                 produced == ProduceOutputs(consumed, r.outputs, 1)
             IN  Emit([s EXCEPT !.units[uid].inventory = produced], stamp,
                      Msg("crafted", u.name, None, None, None, r.outputs))

\* the action is delayed by one turn (<= for <)
TimerDone_late(progress, duration_turns) == ~(progress <= Max(1, duration_turns))

\* the progress is compared for equality with the unclamped duration
TimerDone_exact(progress, duration_turns) == progress = duration_turns

\* the timer test of tick_turn: the progress after the increment has reached
\* the recipe's duration
TimerDone(progress, duration_turns) == ~(progress < Max(1, duration_turns))

\* the status of the unit is not tested: a unit that is not Running is
\* processed like a running one
ProcessUnit_ignores_status(s, uid, stamp) ==
    LET u == s.units[uid]
        skip(b) == [units |-> s.units, events |-> s.events, out |-> s.out, branch |-> b]
        did(t, b) == [units |-> t.units, events |-> t.events, out |-> t.out, branch |-> b]
    IN  IF ~HasRecipe(u)
        THEN skip("no_recipe")
        ELSE IF ~TimerDone(u.turn_progress + 1, u.recipe.duration_turns)
        THEN did([s EXCEPT !.units[uid].turn_progress = @ + 1], "waiting")
        ELSE LET s0 == [s EXCEPT !.units[uid].turn_progress = 0]
             IN  IF Truthy(u.input_id) /\ Truthy(u.output_id)
                 THEN did(do_transfer(s0, uid, stamp), "transfer")
                 ELSE IF u.kind = "ResourcePile" /\ u.output_id # None
                 THEN did(do_pile_output(s0, uid, stamp), "pile")
                 ELSE IF u.recipe.inputs # <<>> /\ u.recipe.outputs # <<>>
                 THEN did(do_crafting(s0, uid, stamp), "craft")
                 ELSE did(s0, "idle")

\* the body of the loop of tick_turn for one unit; branch names what it did
\* the timer is reset only when the action logged something: an abandoned
\* action leaves the timer at its threshold
ProcessUnit_reset_on_success(s, uid, stamp) ==
    LET u == s.units[uid]
        skip(b) == [units |-> s.units, events |-> s.events, out |-> s.out, branch |-> b]
        did(t, b) == [units |-> IF t.out = s.out
                                THEN [t.units EXCEPT ![uid].turn_progress =
                                                        u.turn_progress + 1]
                                ELSE t.units,
                      events |-> t.events, out |-> t.out, branch |-> b]
    IN  IF u.status # "Running"
        THEN skip("not_running")
        ELSE IF ~HasRecipe(u)
        THEN skip("no_recipe")
        ELSE IF ~TimerDone(u.turn_progress + 1, u.recipe.duration_turns)
        THEN did([s EXCEPT !.units[uid].turn_progress = @ + 1], "waiting")
        ELSE LET s0 == [s EXCEPT !.units[uid].turn_progress = 0]
             IN  IF Truthy(u.input_id) /\ Truthy(u.output_id)
                 THEN did(do_transfer(s0, uid, stamp), "transfer")
                 ELSE IF u.kind = "ResourcePile" /\ u.output_id # None
                 THEN did(do_pile_output(s0, uid, stamp), "pile")
                 ELSE IF u.recipe.inputs # <<>> /\ u.recipe.outputs # <<>>
                 THEN did(do_crafting(s0, uid, stamp), "craft")
                 ELSE did(s0, "idle")

\* the recipe content is tested before the links
ProcessUnit_craft_first(s, uid, stamp) ==
    LET u == s.units[uid]
        skip(b) == [units |-> s.units, events |-> s.events, out |-> s.out, branch |-> b]
        did(t, b) == [units |-> t.units, events |-> t.events, out |-> t.out, branch |-> b]
    IN  IF u.status # "Running"
        THEN skip("not_running")
        ELSE IF ~HasRecipe(u)
        THEN skip("no_recipe")
        ELSE IF ~TimerDone(u.turn_progress + 1, u.recipe.duration_turns)
        THEN did([s EXCEPT !.units[uid].turn_progress = @ + 1], "waiting")
        ELSE LET s0 == [s EXCEPT !.units[uid].turn_progress = 0]
             IN  IF u.recipe.inputs # <<>> /\ u.recipe.outputs # <<>>
                 THEN did(do_crafting(s0, uid, stamp), "craft")
                 ELSE IF Truthy(u.input_id) /\ Truthy(u.output_id)
                 THEN did(do_transfer(s0, uid, stamp), "transfer")
                 ELSE IF u.kind = "ResourcePile" /\ u.output_id # None
                 THEN did(do_pile_output(s0, uid, stamp), "pile")
                 ELSE did(s0, "idle")

\* the pile branch is taken by any unit with an output link, whatever its kind
ProcessUnit_kind_blind(s, uid, stamp) ==
    LET u == s.units[uid]
        skip(b) == [units |-> s.units, events |-> s.events, out |-> s.out, branch |-> b]
        did(t, b) == [units |-> t.units, events |-> t.events, out |-> t.out, branch |-> b]
    IN  IF u.status # "Running"
        THEN skip("not_running")
        ELSE IF ~HasRecipe(u)
        THEN skip("no_recipe")
        ELSE IF ~TimerDone(u.turn_progress + 1, u.recipe.duration_turns)
        THEN did([s EXCEPT !.units[uid].turn_progress = @ + 1], "waiting")
        ELSE LET s0 == [s EXCEPT !.units[uid].turn_progress = 0]
             IN  IF Truthy(u.input_id) /\ Truthy(u.output_id)
                 THEN did(do_transfer(s0, uid, stamp), "transfer")
                 ELSE IF u.output_id # None
                 THEN did(do_pile_output(s0, uid, stamp), "pile")
                 ELSE IF u.recipe.inputs # <<>> /\ u.recipe.outputs # <<>>
                 THEN did(do_crafting(s0, uid, stamp), "craft")
                 ELSE did(s0, "idle")

ProcessUnit(s, uid, stamp) ==
    LET u == s.units[uid]
        skip(b) == [units |-> s.units, events |-> s.events, out |-> s.out, branch |-> b]
        did(t, b) == [units |-> t.units, events |-> t.events, out |-> t.out, branch |-> b]
    IN  IF u.status # "Running"
        THEN skip("not_running")
        ELSE IF ~HasRecipe(u)
        THEN skip("no_recipe")
        ELSE IF ~TimerDone(u.turn_progress + 1, u.recipe.duration_turns)
        THEN did([s EXCEPT !.units[uid].turn_progress = @ + 1], "waiting")
        ELSE LET s0 == [s EXCEPT !.units[uid].turn_progress = 0]
             IN  IF Truthy(u.input_id) /\ Truthy(u.output_id)
                 THEN did(do_transfer(s0, uid, stamp), "transfer")
                 ELSE IF u.kind = "ResourcePile" /\ u.output_id # None
                 THEN did(do_pile_output(s0, uid, stamp), "pile")
                 ELSE IF u.recipe.inputs # <<>> /\ u.recipe.outputs # <<>>
                 THEN did(do_crafting(s0, uid, stamp), "craft")
                 ELSE did(s0, "idle")

\* the record of one unit's step: its branch, the units before and after it
\* and the messages it logged
StepRecord(s, uid, t) ==
    [uid |-> uid, branch |-> t.branch, pre |-> s.units, post |-> t.units,
     out |-> SubSeq(t.out, Len(s.out) + 1, Len(t.out))]

\* the loop ends at the first unit that is not running or has no recipe
\* (break for continue)
RECURSIVE ProcessUnits_breaks(_, _, _, _)
ProcessUnits_breaks(r, order, i, stamp) ==
    IF i > Len(order)
    THEN r
    ELSE CHOOSE res \in
            { IF t.branch \in {"not_running", "no_recipe"}
              THEN [units |-> t.units, events |-> t.events, out |-> t.out,
                    steps |-> Append(r.steps, StepRecord(r, order[i], t))]
              ELSE ProcessUnits_breaks(
                      [units |-> t.units, events |-> t.events, out |-> t.out,
                       steps |-> Append(r.steps, StepRecord(r, order[i], t))],
                      order, i + 1, stamp)
              : t \in {ProcessUnit(r, order[i], stamp)} } : TRUE

\* the for loop of tick_turn over order[i..], from r = [units, events, out,
\* steps]; each unit's step is computed once (t ranges over a singleton)
RECURSIVE ProcessUnits(_, _, _, _)
ProcessUnits(r, order, i, stamp) ==
    IF i > Len(order)
    THEN r
    ELSE CHOOSE res \in
            { ProcessUnits([units |-> t.units, events |-> t.events, out |-> t.out,
                            steps |-> Append(r.steps, StepRecord(r, order[i], t))],
                           order, i + 1, stamp)
              : t \in {ProcessUnit(r, order[i], stamp)} } : TRUE

\* the turn counter advances before the paused test
tick_turn_counts_paused(g, stamp) ==
    IF g.paused
    THEN [units |-> g.units, events |-> g.events, sim_turn |-> g.sim_turn + 1,
          out |-> <<>>, steps |-> <<>>]
    ELSE LET r == ProcessUnits([units |-> g.units, events |-> g.events, out |-> <<>>,
                                steps |-> <<>>], Sorted(g.unit_keys), 1, stamp)
         IN  [units |-> r.units, events |-> r.events, sim_turn |-> g.sim_turn + 1,
              out |-> r.out, steps |-> r.steps]

\* the turn counter advances once per unit visited instead of once per turn
tick_turn_counts_units(g, stamp) ==
    IF g.paused
    THEN [units |-> g.units, events |-> g.events, sim_turn |-> g.sim_turn,
          out |-> <<>>, steps |-> <<>>]
    ELSE LET r == ProcessUnits([units |-> g.units, events |-> g.events, out |-> <<>>,
                                steps |-> <<>>], Sorted(g.unit_keys), 1, stamp)
         IN  [units |-> r.units, events |-> r.events,
              sim_turn |-> g.sim_turn + Len(r.steps), out |-> r.out, steps |-> r.steps]

\* the turn is skipped on odd clock readings (a wall-clock throttle inside the
\* engine instead of in the driver)
tick_turn_throttled(g, stamp) ==
    IF g.paused \/ stamp % 2 = 1
    THEN [units |-> g.units, events |-> g.events, sim_turn |-> g.sim_turn,
          out |-> <<>>, steps |-> <<>>]
    ELSE LET r == ProcessUnits([units |-> g.units, events |-> g.events, out |-> <<>>,
                                steps |-> <<>>], Sorted(g.unit_keys), 1, stamp)
         IN  [units |-> r.units, events |-> r.events, sim_turn |-> g.sim_turn + 1,
              out |-> r.out, steps |-> r.steps]

\* the paused flag is not tested: a turn is processed on every call
tick_turn_ignores_pause(g, stamp) ==
    LET r == ProcessUnits([units |-> g.units, events |-> g.events, out |-> <<>>,
                           steps |-> <<>>], Sorted(g.unit_keys), 1, stamp)
    IN  [units |-> r.units, events |-> r.events, sim_turn |-> g.sim_turn + 1,
         out |-> r.out, steps |-> r.steps]

\* Simulation.tick_turn on g = [units, unit_keys, events, paused, sim_turn]
tick_turn(g, stamp) ==
    IF g.paused
    THEN [units |-> g.units, events |-> g.events, sim_turn |-> g.sim_turn,
          out |-> <<>>, steps |-> <<>>]
    ELSE LET r == ProcessUnits([units |-> g.units, events |-> g.events, out |-> <<>>,
                                steps |-> <<>>], Sorted(g.unit_keys), 1, stamp)
         IN  [units |-> r.units, events |-> r.events, sim_turn |-> g.sim_turn + 1,
              out |-> r.out, steps |-> r.steps]

(***************************************************************************)
(* GameState.all_inventories_summary: the dict total built by the nested   *)
(* loops over units.values() and inventory.items().  Quantities are ints,  *)
(* on which int(v) is v.                                                   *)
(***************************************************************************)
RECURSIVE SumInventory(_, _, _)
\* a later unit's quantity replaces the running total instead of adding to it
SumInventory_overwrites(total, inventory, i) ==
    IF i > Len(inventory)
    THEN total
    ELSE CHOOSE res \in
            { SumInventory(t, inventory, i + 1)
              : t \in {DictSet(total, inventory[i].k, inventory[i].v)} } : TRUE

\* the inner loop over inventory[i..], from the running total
SumInventory(total, inventory, i) ==
    IF i > Len(inventory)
    THEN total
    ELSE CHOOSE res \in
            { SumInventory(t, inventory, i + 1)
              : t \in {DictSet(total, inventory[i].k,
                               DictGet(total, inventory[i].k, 0) + inventory[i].v)} } : TRUE

RECURSIVE SumUnits(_, _, _, _)
\* the outer loop over the units keys[i..], in the registry's insertion order
SumUnits(total, us, keys, i) ==
    IF i > Len(keys)
    THEN total
    ELSE CHOOSE res \in
            { SumUnits(t, us, keys, i + 1)
              : t \in {SumInventory(total, us[keys[i]].inventory, 1)} } : TRUE

all_inventories_summary(g) == SumUnits(<<>>, g.units, g.unit_keys, 1)

(***************************************************************************)
(* Commands (src/commands.py): each returns the new paused flag and log.   *)
(***************************************************************************)
CmdMsg(text) == Msg(text, None, None, None, None, <<>>)

\* s.log(text) of a handler: the new log and the message logged
CmdLog(g, stamp, text) == Emit([events |-> g.events, out |-> <<>>], stamp, CmdMsg(text))

\* resume copied from pause: the flag is set instead of cleared
cmd_resume_sets_flag(g, stamp) ==
    LET s == CmdLog(g, stamp, "Simulation resumed.")
    IN  [paused |-> TRUE, events |-> s.events, out |-> s.out]

cmd_pause(g, stamp) ==
    LET s == CmdLog(g, stamp, "Simulation paused.")
    IN  [paused |-> TRUE, events |-> s.events, out |-> s.out]

cmd_resume(g, stamp) ==
    LET s == CmdLog(g, stamp, "Simulation resumed.")
    IN  [paused |-> FALSE, events |-> s.events, out |-> s.out]

cmd_toggle_pause(g, stamp) ==
    LET p == ~g.paused
        s == CmdLog(g, stamp, IF p THEN "Simulation paused." ELSE "Simulation resumed.")
    IN  [paused |-> p, events |-> s.events, out |-> s.out]

(***************************************************************************)
(* Registries.  Recipes and units as the dataclasses of src/model.py       *)
(* (pos and notes are presentation only).                                  *)
(***************************************************************************)
Recipe(name, duration_turns, inputs, outputs, transfer_resource) ==
    [name |-> name, duration_turns |-> duration_turns, inputs |-> inputs,
     outputs |-> outputs, transfer_resource |-> transfer_resource]

NoRecipe == Recipe(None, 1, <<>>, <<>>, None)

KV(key, val) == [k |-> key, v |-> val]

PileTransfer(d) == Recipe("Pile Transfer", d, <<>>, <<>>, "Wood")
DroneTransfer(d) == Recipe("Drone Transfer", d, <<>>, <<>>, None)
SteelHauler == Recipe("Steel Hauler", 1, <<>>, <<>>, "Steel")
SmeltSteel ==
    Recipe("Smelt Steel", 2, <<KV("Iron", 2), KV("Wood", 1)>>, <<KV("Steel", 1)>>, None)

ProcessingUnit(id, kind, input_id, output_id, recipe, status) ==
    [id |-> id, name |-> id, kind |-> kind, input_id |-> input_id,
     output_id |-> output_id, inventory |-> <<>>, recipe |-> recipe,
     status |-> status, turn_progress |-> 0]

UnitIds == {"a", "b", "c"}

\* initial inventories: of a unit that feeds others, and of one that is fed
SourceInvs ==
    { <<>>,
      <<KV("Wood", 2)>>,
      <<KV("Iron", 2), KV("Wood", 1)>>,
      <<KV("Wood", 1), KV("Iron", 1)>>,
      <<KV("Iron", 1), KV("Wood", 0)>> }
SinkInvs == { <<>>, <<KV("Wood", 1)>> }
EmptyInv == { <<>> }

\* a pile feeding a stockpile, and a drone carrying back (a -> b -> a)
RegPile ==
    [keys |-> <<"a", "b", "c">>,
     units |-> [id \in UnitIds |->
        CASE id = "a" -> ProcessingUnit("a", "ResourcePile", None, "b",
                                        PileTransfer(1), "Running")
          [] id = "b" -> ProcessingUnit("b", "Stockpile", None, None, NoRecipe, "Running")
          [] id = "c" -> ProcessingUnit("c", "Drone", "b", "a", DroneTransfer(2), "Stalled")],
     invs |-> [id \in UnitIds |->
        CASE id = "a" -> SourceInvs [] id = "b" -> SinkInvs [] id = "c" -> EmptyInv]]

\* two drones drawing from the same stockpile; the registry was filled c, a, b
RegRace ==
    [keys |-> <<"c", "a", "b">>,
     units |-> [id \in UnitIds |->
        CASE id = "a" -> ProcessingUnit("a", "Stockpile", None, None, NoRecipe, "Running")
          [] id = "b" -> ProcessingUnit("b", "Drone", "a", "b", DroneTransfer(1), "Running")
          [] id = "c" -> ProcessingUnit("c", "Drone", "a", "c", DroneTransfer(2), "Running")],
     invs |-> [id \in UnitIds |->
        CASE id = "a" -> SourceInvs [] id = "b" -> EmptyInv [] id = "c" -> SinkInvs]]

\* a smelter whose products a hauler moves on to the stockpile
RegSmelter ==
    [keys |-> <<"a", "b", "c">>,
     units |-> [id \in UnitIds |->
        CASE id = "a" -> ProcessingUnit("a", "Factory", None, "c", SmeltSteel, "Running")
          [] id = "b" -> ProcessingUnit("b", "Drone", "a", "c", SteelHauler, "Running")
          [] id = "c" -> ProcessingUnit("c", "Stockpile", None, None, NoRecipe, "Running")],
     invs |-> [id \in UnitIds |->
        CASE id = "a" -> SourceInvs [] id = "b" -> EmptyInv [] id = "c" -> SinkInvs]]

\* make_demo_state: a pile with no output yet, a drone docked to it with no
\* output, and the smelter
RegDemo ==
    [keys |-> <<"b", "c", "a">>,
     units |-> [id \in UnitIds |->
        CASE id = "a" -> ProcessingUnit("a", "Factory", None, "b", SmeltSteel, "Running")
          [] id = "b" -> ProcessingUnit("b", "ResourcePile", None, None,
                                        PileTransfer(1), "Running")
          [] id = "c" -> ProcessingUnit("c", "Drone", "b", None, DroneTransfer(1), "Running")],
     invs |-> [id \in UnitIds |->
        CASE id = "a" -> SourceInvs [] id = "b" -> SinkInvs [] id = "c" -> EmptyInv]]

\* links that resolve to no unit, a slow pile, and a drone docked to itself
RegDangling ==
    [keys |-> <<"a", "b", "c">>,
     units |-> [id \in UnitIds |->
        CASE id = "a" -> ProcessingUnit("a", "Drone", "zz", "b", DroneTransfer(1), "Running")
          [] id = "b" -> ProcessingUnit("b", "ResourcePile", None, "c",
                                        PileTransfer(2), "Running")
          [] id = "c" -> ProcessingUnit("c", "Drone", "c", "c", DroneTransfer(1), "Running")],
     invs |-> [id \in UnitIds |->
        CASE id = "a" -> SinkInvs [] id = "b" -> SourceInvs [] id = "c" -> SinkInvs]]

Registries == {RegPile, RegRace, RegSmelter, RegDemo, RegDangling}

\* a recipe that consumes and produces nothing
BurnWood == Recipe("Burn Wood", 1, <<KV("Wood", 1)>>, <<>>, None)

\* two piles feeding each other (a -> b -> a) under recipes of duration 0 and
\* -1, and a burner whose recipe has inputs and no outputs
RegZero ==
    [keys |-> <<"a", "b", "c">>,
     units |-> [id \in UnitIds |->
        CASE id = "a" -> ProcessingUnit("a", "ResourcePile", None, "b",
                                        PileTransfer(0), "Running")
          [] id = "b" -> ProcessingUnit("b", "ResourcePile", None, "a",
                                        PileTransfer(-1), "Running")
          [] id = "c" -> ProcessingUnit("c", "Factory", None, None, BurnWood, "Running")],
     invs |-> [id \in UnitIds |->
        CASE id = "a" -> SourceInvs [] id = "b" -> SinkInvs [] id = "c" -> SinkInvs]]

\* three drones whose transfers cannot happen: the first has a stocked source
\* and a destination that is not registered, the second a source that is not
\* registered, the third an empty source
RegLost ==
    [keys |-> <<"a", "b", "c">>,
     units |-> [id \in UnitIds |->
        CASE id = "a" -> ProcessingUnit("a", "Drone", "b", "zz", DroneTransfer(1), "Running")
          [] id = "b" -> ProcessingUnit("b", "Drone", "zz", "a", DroneTransfer(1), "Running")
          [] id = "c" -> ProcessingUnit("c", "Drone", "a", "b", DroneTransfer(2), "Running")],
     invs |-> [id \in UnitIds |->
        CASE id = "a" -> EmptyInv [] id = "b" -> SourceInvs [] id = "c" -> SinkInvs]]

\* a stockpile whose first inventory entry has quantity 0, drained by a drone
\* free to take anything and by a drone locked on Steel
PickInvs ==
    { <<KV("Wood", 0), KV("Iron", 2), KV("Steel", 1)>>,
      <<KV("Wood", 0), KV("Iron", 2)>> }

RegPick ==
    [keys |-> <<"a", "b", "c">>,
     units |-> [id \in UnitIds |->
        CASE id = "a" -> ProcessingUnit("a", "Stockpile", None, None, NoRecipe, "Running")
          [] id = "b" -> ProcessingUnit("b", "Drone", "a", "c", DroneTransfer(1), "Running")
          [] id = "c" -> ProcessingUnit("c", "Drone", "a", "b", SteelHauler, "Running")],
     invs |-> [id \in UnitIds |->
        CASE id = "a" -> PickInvs [] id = "b" -> EmptyInv [] id = "c" -> EmptyInv]]

\* a factory with both links and a craft recipe, the stockpile it draws
\* from, and a pile bound to the same craft recipe
RegLinked ==
    [keys |-> <<"a", "b", "c">>,
     units |-> [id \in UnitIds |->
        CASE id = "a" -> ProcessingUnit("a", "Factory", "b", "c", SmeltSteel, "Running")
          [] id = "b" -> ProcessingUnit("b", "Stockpile", None, None, NoRecipe, "Running")
          [] id = "c" -> ProcessingUnit("c", "ResourcePile", None, "b", SmeltSteel,
                                        "Running")],
     invs |-> [id \in UnitIds |->
        CASE id = "a" -> SourceInvs [] id = "b" -> SinkInvs [] id = "c" -> SourceInvs]]

\* three piles in a ring c -> a -> b -> c, the only stock in c
RegRing ==
    [keys |-> <<"a", "b", "c">>,
     units |-> [id \in UnitIds |->
        CASE id = "a" -> ProcessingUnit("a", "ResourcePile", None, "b",
                                        PileTransfer(1), "Running")
          [] id = "b" -> ProcessingUnit("b", "ResourcePile", None, "c",
                                        PileTransfer(1), "Running")
          [] id = "c" -> ProcessingUnit("c", "ResourcePile", None, "a",
                                        PileTransfer(1), "Running")],
     invs |-> [id \in UnitIds |->
        CASE id = "a" -> EmptyInv [] id = "b" -> EmptyInv [] id = "c" -> SinkInvs]]

\* a stockpile with an output link and a transfer recipe, a pile with the same
\* links, and a pile whose output link resolves to no unit
RegKind ==
    [keys |-> <<"a", "b", "c">>,
     units |-> [id \in UnitIds |->
        CASE id = "a" -> ProcessingUnit("a", "Stockpile", None, "c",
                                        PileTransfer(1), "Running")
          [] id = "b" -> ProcessingUnit("b", "ResourcePile", None, "c",
                                        PileTransfer(1), "Running")
          [] id = "c" -> ProcessingUnit("c", "ResourcePile", None, "zz",
                                        PileTransfer(1), "Running")],
     invs |-> [id \in UnitIds |->
        CASE id = "a" -> SourceInvs [] id = "b" -> SinkInvs [] id = "c" -> SinkInvs]]

AllRegistries ==
    Registries \cup {RegZero, RegKind, RegLost, RegPick, RegRing, RegLinked}

\* the log of a fresh load, and a log one entry short of its capacity
BootEntry == [stamp |-> 0, msg |-> CmdMsg("Loaded game state from JSON config.")]
TasksEntry == [stamp |-> 0, msg |-> CmdMsg("Loaded projects/goals/tasks from tasks.json.")]
FreshLog == <<BootEntry, TasksEntry>>
InitLogs == { FreshLog, [i \in 1..(LogCap - 1) |-> BootEntry] }

(***************************************************************************)
(* Project tree (src/tasks_loader.py, src/project_manager.py).  A node is  *)
(* named by its position in the lists: find_task returns <<p, g, t>>.      *)
(***************************************************************************)
Task(id, required, completed) ==
    [id |-> id, name |-> id, required |-> required, completed |-> completed]

Goal(id, required, tasks) ==
    [id |-> id, name |-> id, required |-> required, completed |-> FALSE, tasks |-> tasks]

Project(id, required, goals) ==
    [id |-> id, name |-> id, required |-> required, completed |-> FALSE, goals |-> goals]

\* GameState.recompute_project_status: one bottom-up pass, goals first, each
\* project from the goal values of the same pass
RecomputeGoal(g) ==
    [g EXCEPT !.completed = \A i \in DOMAIN g.tasks :
                                g.tasks[i].required => g.tasks[i].completed]

RecomputeProject(p) ==
    LET gs == [j \in DOMAIN p.goals |-> RecomputeGoal(p.goals[j])]
    IN  [p EXCEPT !.goals = gs,
                  !.completed = \A j \in DOMAIN gs : gs[j].required => gs[j].completed]

recompute_project_status(ps) == [i \in DOMAIN ps |-> RecomputeProject(ps[i])]

\* find_task found nothing
NoTask == <<>>

TaskPaths(ps) ==
    UNION { UNION { { <<i, j, k>> : k \in DOMAIN ps[i].goals[j].tasks }
                    : j \in DOMAIN ps[i].goals }
            : i \in DOMAIN ps }

\* the visiting order of the nested loops of find_task
PathBefore(a, b) ==
    \/ a[1] < b[1]
    \/ a[1] = b[1] /\ a[2] < b[2]
    \/ a[1] = b[1] /\ a[2] = b[2] /\ a[3] <= b[3]

\* the goal id is not compared: the first task of that id in the project
find_task_any_goal(ps, project_id, goal_id, task_id) ==
    LET hits == {h \in TaskPaths(ps) :
                    /\ ps[h[1]].id = project_id
                    /\ ps[h[1]].goals[h[2]].tasks[h[3]].id = task_id}
    IN  IF hits = {}
        THEN NoTask
        ELSE CHOOSE h \in hits : \A h2 \in hits : PathBefore(h, h2)

\* ProjectManager.find_task: the first task, in list order, whose project,
\* goal and task ids match; None if there is none
find_task(ps, project_id, goal_id, task_id) ==
    LET hits == {h \in TaskPaths(ps) :
                    /\ ps[h[1]].id = project_id
                    /\ ps[h[1]].goals[h[2]].id = goal_id
                    /\ ps[h[1]].goals[h[2]].tasks[h[3]].id = task_id}
    IN  IF hits = {}
        THEN NoTask
        ELSE CHOOSE h \in hits : \A h2 \in hits : PathBefore(h, h2)

\* f"Task not found: {project_id}/{goal_id}/{task_id}"
TaskNotFoundMsg(project_id, goal_id, task_id) ==
    Msg("Task not found", task_id, None, project_id, goal_id, <<>>)

\* f"Task {'completed' if t.completed else 'reopened'}: {t.name}"
TaskToggledMsg(task) ==
    Msg(IF task.completed THEN "Task completed" ELSE "Task reopened", task.name,
        None, None, None, <<>>)

\* every task of the addressed task's goal is flipped
FlipTask_whole_goal(ps, h) ==
    [ps EXCEPT ![h[1]].goals[h[2]].tasks =
        [k \in DOMAIN @ |-> [@[k] EXCEPT !.completed = ~@]]]

FlipTask(ps, h) == [ps EXCEPT ![h[1]].goals[h[2]].tasks[h[3]].completed = ~@]

TaskAt(ps, h) == ps[h[1]].goals[h[2]].tasks[h[3]]

\* the flag is flipped but the derived flags are not recomputed
toggle_task_no_recompute(s, project_id, goal_id, task_id, stamp) ==
    LET h == find_task(s.projects, project_id, goal_id, task_id)
    IN  IF h = NoTask
        THEN Emit(s, stamp, TaskNotFoundMsg(project_id, goal_id, task_id))
        ELSE LET ps == FlipTask(s.projects, h)
             IN  Emit([s EXCEPT !.projects = ps], stamp, TaskToggledMsg(TaskAt(ps, h)))

\* the derived flags are recomputed before the flag is flipped
toggle_task_recompute_first(s, project_id, goal_id, task_id, stamp) ==
    LET h == find_task(s.projects, project_id, goal_id, task_id)
    IN  IF h = NoTask
        THEN Emit(s, stamp, TaskNotFoundMsg(project_id, goal_id, task_id))
        ELSE LET ps == FlipTask(recompute_project_status(s.projects), h)
             IN  Emit([s EXCEPT !.projects = ps], stamp, TaskToggledMsg(TaskAt(ps, h)))

\* a path that does not resolve is dropped without a log entry
toggle_task_silent_missing(s, project_id, goal_id, task_id, stamp) ==
    LET h == find_task(s.projects, project_id, goal_id, task_id)
    IN  IF h = NoTask
        THEN s
        ELSE LET ps == recompute_project_status(FlipTask(s.projects, h))
             IN  Emit([s EXCEPT !.projects = ps], stamp, TaskToggledMsg(TaskAt(ps, h)))

\* the task is marked completed instead of flipped
toggle_task_sets_completed(s, project_id, goal_id, task_id, stamp) ==
    LET h == find_task(s.projects, project_id, goal_id, task_id)
    IN  IF h = NoTask
        THEN Emit(s, stamp, TaskNotFoundMsg(project_id, goal_id, task_id))
        ELSE LET ps == recompute_project_status(
                          [s.projects EXCEPT
                              ![h[1]].goals[h[2]].tasks[h[3]].completed = TRUE])
             IN  Emit([s EXCEPT !.projects = ps], stamp, TaskToggledMsg(TaskAt(ps, h)))

\* ProjectManager.toggle_task on s = [projects, events, out]
toggle_task(s, project_id, goal_id, task_id, stamp) ==
    LET h == find_task(s.projects, project_id, goal_id, task_id)
    IN  IF h = NoTask
        THEN Emit(s, stamp, TaskNotFoundMsg(project_id, goal_id, task_id))
        ELSE LET ps == recompute_project_status(FlipTask(s.projects, h))
             IN  Emit([s EXCEPT !.projects = ps], stamp, TaskToggledMsg(TaskAt(ps, h)))

\* install_tasks_into_state on s = [projects, events, out]
install_tasks_into_state(s, tree, stamp) ==
    Emit([s EXCEPT !.projects = recompute_project_status(tree)], stamp,
         CmdMsg("Loaded projects/goals/tasks from tasks.json."))

\* the project trees handed to install_tasks_into_state: one or two projects,
\* up to two goals each, up to two tasks each, ids unique within their parent
TaskLists ==
    {<<>>}
    \cup { <<Task("t1", r1, c1)>> : r1 \in BOOLEAN, c1 \in BOOLEAN }
    \cup { <<Task("t1", r[1], c[1]), Task("t2", r[2], c[2])>> :
             r \in [1..2 -> BOOLEAN], c \in [1..2 -> BOOLEAN] }

FirstGoals == { Goal("g1", r, ts) : r \in BOOLEAN, ts \in TaskLists }

SecondGoals ==
    { Goal("g2", TRUE, <<Task("t1", TRUE, FALSE)>>),
      Goal("g2", FALSE, <<Task("t1", TRUE, FALSE)>>),
      Goal("g2", TRUE, <<Task("t1", FALSE, FALSE)>>),
      Goal("g2", TRUE, <<>>) }

GoalLists ==
    {<<>>} \cup { <<g>> : g \in FirstGoals }
           \cup { <<g, g2>> : g \in FirstGoals, g2 \in SecondGoals }

FirstProjects == { Project("p1", r, gs) : r \in BOOLEAN, gs \in GoalLists }

SecondProjects ==
    { Project("p2", TRUE, <<Goal("g1", TRUE, <<Task("t1", TRUE, c)>>)>>) : c \in BOOLEAN }

ProjectTrees ==
    {<<>>} \cup { <<p>> : p \in FirstProjects }
           \cup { <<p, p2>> : p \in FirstProjects, p2 \in SecondProjects }

ProjectIds == {"p1", "p2"}
GoalIds == {"g1", "g2"}
TaskIds == {"t1", "t2"}

\* the tree of the running game: installed, one required and one optional task
DemoProjects ==
    recompute_project_status(
        <<Project("p1", TRUE, <<Goal("g1", TRUE, <<Task("t1", TRUE, FALSE),
                                                    Task("t2", FALSE, FALSE)>>)>>)>>)

NoConfig == [kind |-> "none", data |-> <<>>]

(***************************************************************************)
(* load_units (src/config_loaders.py) on the parsed list of unit entries,  *)
(* the recipes dict and the resource catalog.                              *)
(***************************************************************************)
\* the recipes dict handed to load_units
RecipeBook == <<KV("haul", DroneTransfer(1))>>

\* values of input_id / output_id in a configuration, and of recipe_id
LinkValues == {None, "", "a", "b", "zz"}
RecipeIds == {None, "haul", "nope"}

\* an entry of the "units" list, with the defaults of u.get(...)
CfgUnit(id, input_id, output_id, recipe_id) ==
    [id |-> id, kind |-> "Unit", input_id |-> input_id, output_id |-> output_id,
     recipe_id |-> recipe_id, inventory |-> <<>>, status |-> "Running"]

\* values of "inventory" in a configuration: absent, a quantity of 0, a
\* positive quantity
CfgInvs == { <<>>, <<KV("Wood", 0)>>, <<KV("Iron", 2)>> }

\* the configurations of n entries with distinct ids: any links on every
\* entry, any recipe_id and inventory on the first, a known recipe and no
\* inventory on the others
UnitConfigs(n) ==
    { [i \in 1..n |->
         [CfgUnit(IdOrder[i], f[i][1], f[i][2], IF i = 1 THEN r ELSE "haul")
            EXCEPT !.inventory = IF i = 1 THEN inv ELSE <<>>]]
      : f \in [1..n -> LinkValues \X LinkValues], r \in RecipeIds, inv \in CfgInvs }

LoadError(text) ==
    [ok |-> FALSE, error |-> text, units |-> <<>>, keys |-> <<>>, events |-> <<>>,
     out |-> <<>>]

\* the checks of the first pass on one entry; None if it passes
UnitError(u, recipes, catalog) ==
    IF DictKeys(u.inventory) \ catalog # {}
    THEN "unknown resource id"
    ELSE IF Truthy(u.recipe_id) /\ u.recipe_id \notin DictKeys(recipes)
    THEN "unknown recipe_id"
    ELSE None

\* the ProcessingUnit built by the first pass
BuildUnit(u, recipes) ==
    [ProcessingUnit(u.id, u.kind, u.input_id, u.output_id,
                    IF Truthy(u.recipe_id)
                    THEN DictGet(recipes, u.recipe_id, NoRecipe)
                    ELSE NoRecipe,
                    u.status)
       EXCEPT !.inventory = u.inventory]

\* the tests of the second pass
DanglingInput(us) ==
    \E id \in DOMAIN us : Truthy(us[id].input_id) /\ us[id].input_id \notin DOMAIN us

DanglingOutput(us) ==
    \E id \in DOMAIN us : Truthy(us[id].output_id) /\ us[id].output_id \notin DOMAIN us

\* the second pass validates input_id only
load_units_input_links_only(cfg, recipes, catalog, stamp) ==
    IF cfg = <<>>
    THEN LoadError("no units")
    ELSE IF \E i \in DOMAIN cfg : UnitError(cfg[i], recipes, catalog) # None
    THEN LoadError(UnitError(cfg[CHOOSE i \in DOMAIN cfg :
                                   /\ UnitError(cfg[i], recipes, catalog) # None
                                   /\ \A j \in 1..(i - 1) :
                                         UnitError(cfg[j], recipes, catalog) = None],
                             recipes, catalog))
    ELSE LET keys == [i \in DOMAIN cfg |-> cfg[i].id]
             us == [id \in Range(keys) |->
                      BuildUnit(cfg[CHOOSE i \in DOMAIN cfg :
                                      /\ cfg[i].id = id
                                      /\ \A j \in DOMAIN cfg : cfg[j].id = id => j <= i],
                                recipes)]
             s == Emit([events |-> <<>>, out |-> <<>>], stamp,
                       CmdMsg("Loaded game state from JSON config."))
         IN  IF DanglingInput(us)
             THEN LoadError("link does not exist")
             ELSE [ok |-> TRUE, error |-> None, units |-> us, keys |-> keys,
                   events |-> s.events, out |-> s.out]

\* load_units: the GameState it returns, or the error it raises
load_units(cfg, recipes, catalog, stamp) ==
    IF cfg = <<>>
    THEN LoadError("no units")
    ELSE IF \E i \in DOMAIN cfg : UnitError(cfg[i], recipes, catalog) # None
    THEN LoadError(UnitError(cfg[CHOOSE i \in DOMAIN cfg :
                                   /\ UnitError(cfg[i], recipes, catalog) # None
                                   /\ \A j \in 1..(i - 1) :
                                         UnitError(cfg[j], recipes, catalog) = None],
                             recipes, catalog))
    ELSE LET keys == [i \in DOMAIN cfg |-> cfg[i].id]
             us == [id \in Range(keys) |->
                      BuildUnit(cfg[CHOOSE i \in DOMAIN cfg :
                                      /\ cfg[i].id = id
                                      /\ \A j \in DOMAIN cfg : cfg[j].id = id => j <= i],
                                recipes)]
             s == Emit([events |-> <<>>, out |-> <<>>], stamp,
                       CmdMsg("Loaded game state from JSON config."))
         IN  IF DanglingInput(us) \/ DanglingOutput(us)
             THEN LoadError("link does not exist")
             ELSE [ok |-> TRUE, error |-> None, units |-> us, keys |-> keys,
                   events |-> s.events, out |-> s.out]

(***************************************************************************)
(* The state machine                                                       *)
(***************************************************************************)
GState == [units |-> units, unit_keys |-> unit_keys, events |-> events,
           paused |-> paused, sim_turn |-> sim_turn, projects |-> projects]

NoArg == [uid |-> None, item |-> None, qty |-> 0]

Did(op, arg, ok, steps, out) ==
    [op |-> op, arg |-> arg, ok |-> ok, pre |-> GState, steps |-> steps, out |-> out,
     ret |-> <<>>]

\* the log entries of the messages out, as GameState.log stamps them
Stamped(out, stamp) == [i \in 1..Len(out) |-> [stamp |-> stamp, msg |-> out[i]]]

\* what a resume is compared with: the state before the pause, log and flag apart
Snapshot(g) == [units |-> g.units, unit_keys |-> g.unit_keys, sim_turn |-> g.sim_turn,
                projects |-> g.projects]

\* a command took the paused flag from g.paused to p
MarkCommand(mark, g, p) ==
    IF ~g.paused /\ p
    THEN [phase |-> "paused", pre |-> Snapshot(g), k |-> 0, after |-> 0]
    ELSE IF g.paused /\ ~p /\ mark.phase = "paused"
    THEN [mark EXCEPT !.phase = "resumed"]
    ELSE mark

\* the driver called tick_turn
MarkTick(mark) ==
    IF mark.phase = "paused"
    THEN [mark EXCEPT !.k = @ + 1]
    ELSE IF mark.phase = "resumed"
    THEN [mark EXCEPT !.after = @ + 1]
    ELSE mark

\* no turn is under way
NoTurn == [i |-> 0, order |-> <<>>, pre |-> <<>>, out |-> <<>>, steps |-> <<>>]

\* main's loop is not part of the run
NoDriver == [pc |-> "off", running |-> FALSE, turn_accum |-> 0, frames |-> 0,
             done |-> 0, turn |-> NoTurn]

\* a loaded game whose registry is one of regs
InitGameOn(regs) ==
    /\ \E reg \in regs :
       \E invs \in [UnitIds -> SourceInvs \cup SinkInvs \cup PickInvs] :
          /\ \A id \in UnitIds : invs[id] \in reg.invs[id]
          /\ units = [id \in UnitIds |-> [reg.units[id] EXCEPT !.inventory = invs[id]]]
          /\ unit_keys = reg.keys
    /\ events \in InitLogs
    /\ paused = FALSE
    /\ sim_turn = 0
    /\ ncalls = 0
    /\ projects = DemoProjects
    /\ config = NoConfig
    /\ last = [op |-> "init", arg |-> NoArg, ok |-> TRUE,
               pre |-> [units |-> units, unit_keys |-> unit_keys, events |-> events,
                        paused |-> FALSE, sim_turn |-> 0, projects |-> projects],
               steps |-> <<>>, out |-> <<>>, ret |-> <<>>]
    /\ nticks = 0
    /\ logged = events
    /\ pause_mark = [phase |-> "none",
                     pre |-> [units |-> units, unit_keys |-> unit_keys, sim_turn |-> 0,
                              projects |-> projects],
                     k |-> 0, after |-> 0]

InitGame == InitGameOn(Registries)

Init ==
    /\ InitGame
    /\ now = 0
    /\ twin = None
    /\ driver = NoDriver

\* the driver calls sim.tick_turn()
TickTurn ==
    /\ IF paused THEN pause_mark.k < MaxPausedTicks ELSE sim_turn < MaxTurn
    /\ \E r \in {tick_turn(GState, now)} :
           /\ units' = r.units
           /\ events' = r.events
           /\ sim_turn' = r.sim_turn
           /\ last' = Did("tick_turn", NoArg, TRUE, r.steps, r.out)
           /\ logged' = logged \o Stamped(r.out, now)
    /\ nticks' = IF paused THEN nticks ELSE nticks + 1
    /\ pause_mark' = MarkTick(pause_mark)
    /\ UNCHANGED <<unit_keys, paused, projects, config, now, ncalls, twin, driver>>

\* the command bus dispatches a pause command to its handler
Command(name, r) ==
    /\ ncalls < MaxCmds
    /\ paused' = r.paused
    /\ events' = r.events
    /\ ncalls' = ncalls + 1
    /\ last' = Did(name, NoArg, TRUE, <<>>, r.out)
    /\ logged' = logged \o Stamped(r.out, now)
    /\ pause_mark' = MarkCommand(pause_mark, GState, r.paused)
    /\ UNCHANGED <<units, unit_keys, sim_turn, projects, config, now, nticks, twin, driver>>

Pause == Command("pause", cmd_pause(GState, now))

Resume == Command("resume", cmd_resume(GState, now))

TogglePause == Command("toggle_pause", cmd_toggle_pause(GState, now))

\* a direct call of unit.inv_add(item, qty)
InvAdd ==
    /\ ncalls < MaxDirect
    /\ \E uid \in UnitIds, item \in {"Wood", "Iron"}, qty \in (-MaxArg)..MaxArg :
          /\ units' = [units EXCEPT ![uid].inventory = inv_add(@, item, qty)]
          /\ last' = Did("inv_add", [uid |-> uid, item |-> item, qty |-> qty],
                         TRUE, <<>>, <<>>)
    /\ ncalls' = ncalls + 1
    /\ UNCHANGED <<unit_keys, events, paused, sim_turn, projects, config, now, nticks,
                   logged, pause_mark, twin, driver>>

\* a direct call of unit.inv_remove(item, qty)
InvRemove ==
    /\ ncalls < MaxDirect
    /\ \E uid \in UnitIds, item \in {"Wood", "Iron"}, qty \in (-MaxArg)..MaxArg :
          LET r == inv_remove(units[uid].inventory, item, qty)
          IN  /\ units' = [units EXCEPT ![uid].inventory = r.inventory]
              /\ last' = Did("inv_remove", [uid |-> uid, item |-> item, qty |-> qty],
                             r.ok, <<>>, <<>>)
    /\ ncalls' = ncalls + 1
    /\ UNCHANGED <<unit_keys, events, paused, sim_turn, projects, config, now, nticks,
                   logged, pause_mark, twin, driver>>

\* a reader (the dashboard) calls state.all_inventories_summary()
Summary ==
    /\ \E total \in {all_inventories_summary(GState)} :
          last' = [Did("all_inventories_summary", NoArg, TRUE, <<>>, <<>>)
                      EXCEPT !.ret = total]
    /\ UNCHANGED <<units, unit_keys, events, paused, sim_turn, projects, config, now,
                   ncalls, nticks, logged, pause_mark, twin, driver>>

Next == TickTurn \/ Pause \/ Resume \/ TogglePause

Spec == Init /\ [][Next]_vars

\* the engine with direct calls of the inventory methods, from a fresh log
InitInv == Init /\ events = FreshLog

NextInv == TickTurn \/ InvAdd \/ InvRemove

SpecInv == InitInv /\ [][NextInv]_vars

\* the engine alone on every registry, from a fresh log
InitEngine ==
    /\ InitGameOn(AllRegistries)
    /\ events = FreshLog
    /\ now = 0
    /\ twin = None
    /\ driver = NoDriver

NextEngine == TickTurn

SpecEngine == InitEngine /\ [][NextEngine]_vars

\* the engine with a reader of the inventory summary, from a fresh log
NextRead == TickTurn \/ Summary

SpecRead == InitInv /\ [][NextRead]_vars

\* the boot after load_units: the units are loaded, the project list is
\* empty and the tree parsed by load_tasks is about to be installed
InitPM ==
    /\ config \in { [kind |-> "tasks", data |-> tree] : tree \in ProjectTrees }
    /\ units = RegPile.units
    /\ unit_keys = RegPile.keys
    /\ events = <<BootEntry>>
    /\ paused = FALSE
    /\ sim_turn = 0
    /\ projects = <<>>
    /\ now = 0
    /\ ncalls = 0
    /\ nticks = 0
    /\ logged = events
    /\ last = [op |-> "init", arg |-> NoArg, ok |-> TRUE,
               pre |-> [units |-> units, unit_keys |-> unit_keys, events |-> events,
                        paused |-> FALSE, sim_turn |-> 0, projects |-> <<>>],
               steps |-> <<>>, out |-> <<>>, ret |-> <<>>]
    /\ pause_mark = [phase |-> "none",
                     pre |-> [units |-> units, unit_keys |-> unit_keys, sim_turn |-> 0,
                              projects |-> <<>>],
                     k |-> 0, after |-> 0]
    /\ twin = None
    /\ driver = NoDriver

\* main calls install_tasks_into_state(state, projects)
InstallTasks ==
    /\ config.kind = "tasks"
    /\ \E r \in {install_tasks_into_state([projects |-> projects, events |-> events,
                                            out |-> <<>>], config.data, now)} :
          /\ projects' = r.projects
          /\ events' = r.events
          /\ logged' = logged \o Stamped(r.out, now)
          /\ last' = Did("install_tasks_into_state", NoArg, TRUE, <<>>, r.out)
    /\ config' = [config EXCEPT !.kind = "installed"]
    /\ UNCHANGED <<units, unit_keys, paused, sim_turn, now, ncalls, nticks, pause_mark,
                   twin, driver>>

\* the pm_toggle_task command: pm.toggle_task(project_id, goal_id, task_id)
ToggleTask ==
    /\ config.kind = "installed"
    /\ ncalls < MaxToggles
    /\ \E project_id \in ProjectIds, goal_id \in GoalIds, task_id \in TaskIds :
       \E r \in {toggle_task([projects |-> projects, events |-> events, out |-> <<>>],
                              project_id, goal_id, task_id, now)} :
          /\ projects' = r.projects
          /\ events' = r.events
          /\ logged' = logged \o Stamped(r.out, now)
          /\ last' = [Did("toggle_task", NoArg, TRUE, <<>>, r.out)
                        EXCEPT !.arg = [project_id |-> project_id, goal_id |-> goal_id,
                                        task_id |-> task_id]]
    /\ ncalls' = ncalls + 1
    /\ UNCHANGED <<units, unit_keys, paused, sim_turn, config, now, nticks, pause_mark,
                   twin, driver>>

NextPM == InstallTasks \/ ToggleTask

SpecPM == InitPM /\ [][NextPM]_vars

\* the boot of the game: GameState() has been constructed and load_units is
\* about to fill it from a configuration
InitLoad ==
    /\ \E n \in 0..MaxCfgUnits :
          config \in { [kind |-> "units", data |-> c] : c \in UnitConfigs(n) }
    /\ units = <<>>
    /\ unit_keys = <<>>
    /\ events = <<>>
    /\ paused = FALSE
    /\ sim_turn = 0
    /\ projects = <<>>
    /\ now = 0
    /\ ncalls = 0
    /\ nticks = 0
    /\ logged = <<>>
    /\ last = [op |-> "init", arg |-> NoArg, ok |-> TRUE,
               pre |-> [units |-> <<>>, unit_keys |-> <<>>, events |-> <<>>,
                        paused |-> FALSE, sim_turn |-> 0, projects |-> <<>>],
               steps |-> <<>>, out |-> <<>>, ret |-> <<>>]
    /\ pause_mark = [phase |-> "none",
                     pre |-> [units |-> <<>>, unit_keys |-> <<>>, sim_turn |-> 0,
                              projects |-> <<>>],
                     k |-> 0, after |-> 0]
    /\ twin = None
    /\ driver = NoDriver

\* main calls load_units: the returned state becomes the game's, or the error
\* ends the boot with no state
LoadUnits ==
    /\ config.kind = "units"
    /\ \E r \in {load_units(config.data, RecipeBook, Resources, now)} :
          /\ units' = r.units
          /\ unit_keys' = r.keys
          /\ events' = r.events
          /\ logged' = logged \o Stamped(r.out, now)
          /\ last' = [Did("load_units", NoArg, r.ok, <<>>, r.out) EXCEPT !.ret = r.error]
    /\ config' = [config EXCEPT !.kind = "loaded"]
    /\ UNCHANGED <<paused, sim_turn, projects, now, ncalls, nticks, pause_mark, twin, driver>>

NextLoad == LoadUnits

SpecLoad == InitLoad /\ [][NextLoad]_vars

\* two runs from the same GameState, each process reading its own wall clock;
\* the driver of each makes the same tick_turn calls
InitTwin ==
    /\ InitGame
    /\ now \in 0..MaxClock
    /\ \E t \in 0..MaxClock : twin = [g |-> GState, now |-> t]
    /\ driver = NoDriver

TwinTickTurn ==
    /\ sim_turn < MaxTurn
    /\ \E r \in {tick_turn(GState, now)}, r2 \in {tick_turn(twin.g, twin.now)} :
           /\ units' = r.units
           /\ events' = r.events
           /\ sim_turn' = r.sim_turn
           /\ last' = Did("tick_turn", NoArg, TRUE, r.steps, r.out)
           /\ logged' = logged \o Stamped(r.out, now)
           /\ twin' = [twin EXCEPT !.g.units = r2.units, !.g.events = r2.events,
                                   !.g.sim_turn = r2.sim_turn]
    /\ nticks' = IF paused THEN nticks ELSE nticks + 1
    /\ UNCHANGED <<unit_keys, paused, projects, config, now, ncalls, pause_mark, driver>>

\* a second passes on the clock of the first run
ClockAdvance ==
    /\ now < MaxClock
    /\ now' = now + 1
    /\ UNCHANGED <<units, unit_keys, events, paused, sim_turn, projects, config, ncalls,
                   last, nticks, logged, pause_mark, twin, driver>>

\* a second passes on the clock of the second run
TwinClockAdvance ==
    /\ twin.now < MaxClock
    /\ twin' = [twin EXCEPT !.now = @ + 1]
    /\ UNCHANGED <<units, unit_keys, events, paused, sim_turn, projects, config, now,
                   ncalls, last, nticks, logged, pause_mark, driver>>

NextTwin == TwinTickTurn \/ ClockAdvance \/ TwinClockAdvance

SpecTwin == InitTwin /\ [][NextTwin]_vars

(***************************************************************************)
(* main's loop (src/main.py): each frame adds the elapsed time to          *)
(* turn_accum, handles the frame's events, then calls tick_turn while a    *)
(* turn is due.  Time is counted in quarter seconds.  The for loop of      *)
(* tick_turn is followed unit by unit: driver.turn holds its position.     *)
(***************************************************************************)
\* turn_dt = 1.0 / turns_per_sec, half a second
TurnDt == 2

\* the time clock.tick(60) can report for a frame: less than a turn, one
\* turn, or the longest frame
DtValues == {1, TurnDt, MaxDt}

\* the game main runs: the pile registry with wood in the pile, the demo tasks
InitDriver ==
    /\ InitGameOn({RegPile})
    /\ units["a"].inventory = <<KV("Wood", 2)>>
    /\ units["b"].inventory = <<>>
    /\ events = FreshLog
    /\ now = 0
    /\ twin = None
    /\ driver = [pc |-> "top", running |-> TRUE, turn_accum |-> 0, frames |-> 0,
                 done |-> 0, turn |-> NoTurn]

\* handlers are also called between two passes of the loop of tick_turn
AtEventLoop_any(d) == d.pc \in {"events", "in_turn"}

\* the handlers are called from the for loop over pygame.event.get()
AtEventLoop(d) == d.pc = "events"

\* while running: dt_s = clock.tick(60) / 1000.0; turn_accum += dt_s
FrameStart ==
    /\ driver.pc = "top"
    /\ driver.running
    /\ driver.frames < MaxFrames
    /\ \E dt \in DtValues :
          driver' = [driver EXCEPT !.pc = "events", !.turn_accum = @ + dt,
                                   !.frames = @ + 1, !.done = 0]
    /\ UNCHANGED <<units, unit_keys, events, paused, sim_turn, projects, config, now,
                   ncalls, last, nticks, logged, pause_mark, twin>>

\* an event of the frame dispatches pause, resume or toggle_pause
DriverCommand(name, r) ==
    /\ AtEventLoop(driver)
    /\ ncalls < MaxCmds
    /\ paused' = r.paused
    /\ events' = r.events
    /\ ncalls' = ncalls + 1
    /\ last' = Did(name, NoArg, TRUE, <<>>, r.out)
    /\ logged' = logged \o Stamped(r.out, now)
    /\ pause_mark' = MarkCommand(pause_mark, GState, r.paused)
    /\ UNCHANGED <<units, unit_keys, sim_turn, projects, config, now, nticks, twin,
                   driver>>

DriverPause == DriverCommand("pause", cmd_pause(GState, now))

DriverResume == DriverCommand("resume", cmd_resume(GState, now))

DriverTogglePause == DriverCommand("toggle_pause", cmd_toggle_pause(GState, now))

\* a click on a task row dispatches pm_toggle_task with the path of the row
DriverToggleTask ==
    /\ AtEventLoop(driver)
    /\ ncalls < MaxCmds
    /\ \E h \in TaskPaths(projects) :
       \E r \in {toggle_task([projects |-> projects, events |-> events, out |-> <<>>],
                              projects[h[1]].id, projects[h[1]].goals[h[2]].id,
                              TaskAt(projects, h).id, now)} :
          /\ projects' = r.projects
          /\ events' = r.events
          /\ logged' = logged \o Stamped(r.out, now)
          /\ last' = [Did("toggle_task", NoArg, TRUE, <<>>, r.out)
                        EXCEPT !.arg = [project_id |-> projects[h[1]].id,
                                        goal_id |-> projects[h[1]].goals[h[2]].id,
                                        task_id |-> TaskAt(projects, h).id]]
    /\ ncalls' = ncalls + 1
    /\ UNCHANGED <<units, unit_keys, paused, sim_turn, config, now, nticks, pause_mark,
                   twin, driver>>

\* pygame.QUIT or Escape: running = False and the for loop is left
DriverQuit ==
    /\ driver.pc = "events"
    /\ driver' = [driver EXCEPT !.running = FALSE, !.pc = "turns"]
    /\ UNCHANGED <<units, unit_keys, events, paused, sim_turn, projects, config, now,
                   ncalls, last, nticks, logged, pause_mark, twin>>

\* the for loop over the frame's events ends
EventsDone ==
    /\ driver.pc = "events"
    /\ driver' = [driver EXCEPT !.pc = "turns"]
    /\ UNCHANGED <<units, unit_keys, events, paused, sim_turn, projects, config, now,
                   ncalls, last, nticks, logged, pause_mark, twin>>

\* while turn_accum >= turn_dt: sim.tick_turn() is entered.  Paused, it
\* returns at once and turn_accum -= turn_dt; otherwise sim_turn += 1 and the
\* for loop over the sorted ids starts
TurnBegin ==
    /\ driver.pc = "turns"
    /\ driver.turn_accum >= TurnDt
    /\ IF paused
       THEN /\ driver' = [driver EXCEPT !.turn_accum = @ - TurnDt, !.done = @ + 1]
            /\ last' = Did("tick_turn", NoArg, TRUE, <<>>, <<>>)
            /\ pause_mark' = MarkTick(pause_mark)
            /\ UNCHANGED <<sim_turn, nticks>>
       ELSE /\ driver' = [driver EXCEPT !.pc = "in_turn",
                              !.turn = [i |-> 1, order |-> Sorted(unit_keys),
                                        pre |-> GState, out |-> <<>>, steps |-> <<>>]]
            /\ sim_turn' = sim_turn + 1
            /\ nticks' = nticks + 1
            /\ last' = Did("turn_begin", NoArg, TRUE, <<>>, <<>>)
            /\ UNCHANGED pause_mark
    /\ UNCHANGED <<units, unit_keys, events, paused, projects, config, now, ncalls,
                   logged, twin>>

\* one pass of the for loop of tick_turn
TurnUnit ==
    /\ driver.pc = "in_turn"
    /\ driver.turn.i <= Len(driver.turn.order)
    /\ \E s \in {[units |-> units, events |-> events, out |-> driver.turn.out]} :
       \E t \in {ProcessUnit(s, driver.turn.order[driver.turn.i], now)} :
          /\ units' = t.units
          /\ events' = t.events
          /\ driver' = [driver EXCEPT
                           !.turn.i = @ + 1,
                           !.turn.out = t.out,
                           !.turn.steps = Append(@, StepRecord(s,
                                             driver.turn.order[driver.turn.i], t))]
    /\ UNCHANGED <<unit_keys, paused, sim_turn, projects, config, now, ncalls, last,
                   nticks, logged, pause_mark, twin>>

\* the for loop is exhausted: tick_turn returns and turn_accum -= turn_dt
TurnEnd ==
    /\ driver.pc = "in_turn"
    /\ driver.turn.i > Len(driver.turn.order)
    /\ driver' = [driver EXCEPT !.pc = "turns", !.turn_accum = @ - TurnDt,
                                !.done = @ + 1, !.turn = NoTurn]
    /\ last' = [Did("tick_turn", NoArg, TRUE, driver.turn.steps, driver.turn.out)
                  EXCEPT !.pre = driver.turn.pre]
    /\ logged' = logged \o Stamped(driver.turn.out, now)
    /\ pause_mark' = MarkTick(pause_mark)
    /\ UNCHANGED <<units, unit_keys, events, paused, sim_turn, projects, config, now,
                   ncalls, nticks, twin>>

\* no turn is due any more: the frame is drawn, and the loop ends if a quit
\* was seen
TurnsDone ==
    /\ driver.pc = "turns"
    /\ driver.turn_accum < TurnDt
    /\ driver' = [driver EXCEPT !.pc = IF driver.running THEN "top" ELSE "exited"]
    /\ UNCHANGED <<units, unit_keys, events, paused, sim_turn, projects, config, now,
                   ncalls, last, nticks, logged, pause_mark, twin>>

NextDriver ==
    \/ FrameStart
    \/ DriverPause
    \/ DriverResume
    \/ DriverTogglePause
    \/ DriverToggleTask
    \/ DriverQuit
    \/ EventsDone
    \/ TurnBegin
    \/ TurnUnit
    \/ TurnEnd
    \/ TurnsDone

SpecDriver == InitDriver /\ [][NextDriver]_vars

(***************************************************************************)
(* Vocabulary of the properties                                            *)
(***************************************************************************)
Qty(us, id, r) == inv_get(us[id].inventory, r)

IsTurn == last.op = "tick_turn" /\ ~last.pre.paused

Steps == {last.steps[i] : i \in DOMAIN last.steps}

TransferSteps == {st \in Steps : st.branch \in {"transfer", "pile"}}

CraftSteps == {st \in Steps : st.branch = "craft"}

\* the source and destination links of a transfer step
StepSrc(st) == IF st.branch = "pile" THEN st.uid ELSE st.pre[st.uid].input_id
StepDst(st) == st.pre[st.uid].output_id

StepKeepsInventories(st) ==
    \A id \in UnitIds : \A r \in Resources : Qty(st.post, id, r) = Qty(st.pre, id, r)

\* exactly one unit of r went from src to dst and nothing else moved
StepMovedOne(st, src, dst, r) ==
    /\ Qty(st.post, src, r) = Qty(st.pre, src, r) - 1
    /\ Qty(st.post, dst, r) = Qty(st.pre, dst, r) + 1
    /\ \A id \in UnitIds : \A x \in Resources :
          (x # r \/ id \notin {src, dst}) => Qty(st.post, id, x) = Qty(st.pre, id, x)

\* C1: with direct inv_add / inv_remove calls and turns in any order, from
\* non-negative inventories, no inventory entry of any unit is ever negative
C1_NonNegative ==
    \A id \in UnitIds :
       /\ \A i \in DOMAIN units[id].inventory : units[id].inventory[i].v >= 0
       /\ \A r \in Resources : Qty(units, id, r) >= 0

\* a turn has run and inv_add has just subtracted more than the unit held
C1_Witness ==
    /\ last.op = "inv_add"
    /\ sim_turn >= 1
    /\ Qty(last.pre.units, last.arg.uid, last.arg.item) >= 1
    /\ Qty(last.pre.units, last.arg.uid, last.arg.item) + last.arg.qty < 0

\* C2: inv_remove(item, qty) with qty above the current quantity returns False
\* and changes nothing; otherwise it returns True, the quantity of item drops
\* by exactly qty and every other resource is unchanged
C2_RemoveGuard ==
    last.op = "inv_remove" =>
       LET uid == last.arg.uid
           item == last.arg.item
           qty == last.arg.qty
           cur == Qty(last.pre.units, uid, item)
       IN  IF qty > cur
           THEN ~last.ok /\ units = last.pre.units
           ELSE /\ last.ok
                /\ Qty(units, uid, item) = cur - qty
                /\ \A r \in Resources \ {item} :
                      Qty(units, uid, r) = Qty(last.pre.units, uid, r)
                /\ \A id \in UnitIds \ {uid} : units[id] = last.pre.units[id]

\* inv_remove was refused on a unit that holds some, but not enough, of the item
C2_Witness ==
    /\ last.op = "inv_remove"
    /\ ~last.ok
    /\ Qty(last.pre.units, last.arg.uid, last.arg.item) >= 1
    /\ last.arg.qty > Qty(last.pre.units, last.arg.uid, last.arg.item)

\* C3: in a single transfer action (drone or pile) the moved resource is
\* conserved over source and destination: the source loses exactly 1 and the
\* destination gains exactly 1, or no quantity changes
C3_TransferConserves ==
    \A st \in TransferSteps :
       LET src == StepSrc(st)
           dst == StepDst(st)
       IN  /\ \/ StepKeepsInventories(st)
              \/ /\ src \in UnitIds /\ dst \in UnitIds /\ src # dst
                 /\ \E r \in Resources : StepMovedOne(st, src, dst, r)
           /\ (src \in UnitIds /\ dst \in UnitIds) =>
                 \A r \in Resources :
                    Qty(st.post, src, r) + Qty(st.post, dst, r)
                       = Qty(st.pre, src, r) + Qty(st.pre, dst, r)

\* a drone moved a resource between two different units, and so did a pile
C3_Witness ==
    /\ \E st \in TransferSteps :
          st.branch = "transfer" /\ st.out # <<>> /\ StepSrc(st) # StepDst(st)
             /\ ~StepKeepsInventories(st)

\* C4: a craft action changes the crafting unit's inventory by exactly minus
\* every recipe input plus every recipe output, or not at all
C4_CraftAtomic ==
    \A st \in CraftSteps :
       LET r == st.pre[st.uid].recipe
           delta(x) == DictGet(r.outputs, x, 0) - DictGet(r.inputs, x, 0)
       IN  \/ \A x \in Resources : Qty(st.post, st.uid, x) = Qty(st.pre, st.uid, x)
           \/ \A x \in Resources :
                 Qty(st.post, st.uid, x) = Qty(st.pre, st.uid, x) + delta(x)

\* a craft completed: inputs were consumed and the output produced
C4_Witness ==
    \E st \in CraftSteps :
       /\ st.out # <<>>
       /\ Qty(st.post, st.uid, "Steel") = Qty(st.pre, st.uid, "Steel") + 1
       /\ Qty(st.post, st.uid, "Iron") = Qty(st.pre, st.uid, "Iron") - 2

\* C5: tick_turn while paused changes nothing: not sim_turn, not any unit
\* (inventory, status, turn progress), not the event log
C5_PausedTickNoOp ==
    (last.op = "tick_turn" /\ last.pre.paused) =>
       /\ sim_turn = last.pre.sim_turn
       /\ units = last.pre.units
       /\ events = last.pre.events
       /\ paused = last.pre.paused

\* tick_turn was called while paused, with a unit that would have moved
\* a resource had the turn been processed
C5_Witness ==
    /\ last.op = "tick_turn"
    /\ last.pre.paused
    /\ \E id \in UnitIds :
          /\ units[id].status = "Running"
          /\ units[id].kind = "ResourcePile"
          /\ units[id].recipe.duration_turns = 1
          /\ units[id].output_id \in UnitIds
          /\ Qty(units, id, "Wood") >= 1

\* C7: sim_turn never decreases, each tick_turn made while not paused adds
\* exactly 1, so sim_turn equals the number of tick_turn calls made while
\* paused was false
C7_TurnCounter ==
    /\ sim_turn = nticks
    /\ sim_turn >= last.pre.sim_turn
    /\ IsTurn => sim_turn = last.pre.sim_turn + 1
    /\ last.op \in {"pause", "resume", "toggle_pause"} => sim_turn = last.pre.sim_turn

\* after two processed turns and a pause, a paused tick_turn has just run
C7_Witness ==
    /\ last.op = "tick_turn"
    /\ last.pre.paused
    /\ nticks >= 2

\* the units acting by a recipe of duration d >= 1
Timed == {id \in UnitIds : units[id].status = "Running" /\ HasRecipe(units[id])
                              /\ units[id].recipe.duration_turns >= 1}

StepOf(id) == CHOOSE st \in Steps : st.uid = id

\* C8: a Running unit with a recipe of duration d >= 1 does nothing on a turn
\* where its progress has not reached d, attempts its action on exactly every
\* d-th unpaused turn, and its progress is 0 right after each such turn
C8_DurationGating ==
    \A id \in Timed :
       LET d == units[id].recipe.duration_turns
       IN  /\ units[id].turn_progress = sim_turn % d
           /\ IsTurn =>
                 LET st == StepOf(id)
                 IN  IF sim_turn % d = 0
                     THEN /\ st.branch \in {"transfer", "pile", "craft", "idle"}
                          /\ units[id].turn_progress = 0
                     ELSE /\ st.branch = "waiting"
                          /\ st.out = <<>>
                          /\ StepKeepsInventories(st)
                          /\ st.post[id].turn_progress = st.pre[id].turn_progress + 1

\* a duration-2 unit has completed its action for the second time, on turn 4
C8_Witness ==
    /\ IsTurn
    /\ sim_turn = 4
    /\ \E id \in Timed :
          /\ units[id].recipe.duration_turns = 2
          /\ StepOf(id).out # <<>>
          /\ units[id].turn_progress = 0

\* C10: when the craft inputs are not all in the unit's own inventory as its
\* timer completes, the craft leaves the inventory unchanged and logs nothing
C10_CraftShortfallSilent ==
    \A st \in CraftSteps :
       LET r == st.pre[st.uid].recipe
       IN  (\E i \in DOMAIN r.inputs : Qty(st.pre, st.uid, r.inputs[i].k) < r.inputs[i].v)
              => /\ st.post[st.uid].inventory = st.pre[st.uid].inventory
                 /\ \A id \in UnitIds : st.post[id].inventory = st.pre[id].inventory
                 /\ st.out = <<>>

\* the smelter came up short for the second time (turn 4) while holding part
\* of its inputs
C10_Witness ==
    /\ IsTurn
    /\ sim_turn = 4
    /\ \E st \in CraftSteps :
          /\ Qty(st.pre, st.uid, "Iron") = 1
          /\ Qty(st.pre, st.uid, "Wood") >= 1
          /\ st.pre[st.uid].recipe.inputs = <<KV("Iron", 2), KV("Wood", 1)>>

\* the messages of a log, without the wall-clock stamp of each entry
Messages(evs) == [i \in DOMAIN evs |-> evs[i].msg]

\* a completed transfer: both links resolve and the source holds something
TransferCompletes(st) ==
    /\ StepSrc(st) \in UnitIds
    /\ StepDst(st) \in UnitIds
    /\ \E r \in Resources : Qty(st.pre, StepSrc(st), r) > 0

\* the messages the units logged during the last turn, in step order
RECURSIVE StepMessages(_)
StepMessages(i) ==
    IF i > Len(last.steps) THEN <<>> ELSE last.steps[i].out \o StepMessages(i + 1)

\* every completed transfer moves one unit of one resource and logs one entry,
\* and the log after the turn is the log before it with the units' entries
\* appended, cut to its capacity
C9_OnePerTransfer ==
    /\ \A st \in TransferSteps :
          TransferCompletes(st) =>
             /\ Len(st.out) = 1
             /\ st.out[1].item \in Resources
             /\ IF StepSrc(st) = StepDst(st)
                THEN StepKeepsInventories(st)
                ELSE StepMovedOne(st, StepSrc(st), StepDst(st), st.out[1].item)
    /\ IsTurn =>
          Messages(events) = LastN(Messages(last.pre.events) \o StepMessages(1), LogCap)

\* the scenario of C9 in the state a turn started from: pile A holds only
\* Wood, n >= 1, has a duration-1 Wood recipe and outputs to B; nothing else acts
PileScenario(A, B) ==
    LET pre == last.pre.units
    IN  /\ IsTurn
        /\ A # B
        /\ pre[A].kind = "ResourcePile" /\ pre[A].status = "Running"
        /\ pre[A].input_id = None /\ pre[A].output_id = B
        /\ pre[A].recipe.duration_turns = 1
        /\ pre[A].recipe.transfer_resource = "Wood"
        /\ Qty(pre, A, "Wood") >= 1
        /\ DictKeys(pre[A].inventory) = {"Wood"}
        /\ \A id \in UnitIds \ {A} : pre[id].status # "Running" \/ ~HasRecipe(pre[id])

PileScenarioMoves(A, B) ==
    /\ Qty(units, A, "Wood") = Qty(last.pre.units, A, "Wood") - 1
    /\ Qty(units, B, "Wood") = Qty(last.pre.units, B, "Wood") + 1

\* C9 as claimed: every completed transfer moves one unit of one resource and
\* logs one entry; in the pile scenario one tick_turn leaves A with n-1 Wood,
\* B with one more Wood and the log one entry longer
C9_Original ==
    /\ C9_OnePerTransfer
    /\ \A A, B \in UnitIds :
          PileScenario(A, B) =>
             /\ PileScenarioMoves(A, B)
             /\ Len(events) = Len(last.pre.events) + 1

\* C9 amended: as claimed, but the log has the one entry appended under its
\* capacity: one entry longer below 300 entries, and at 300 entries still 300
\* long with the oldest entry evicted
C9_Amended ==
    /\ C9_OnePerTransfer
    /\ \A A, B \in UnitIds :
          PileScenario(A, B) =>
             /\ PileScenarioMoves(A, B)
             /\ LET e == events[Len(events)]
                IN  /\ e.msg.kind = "output" /\ e.msg.item = "Wood"
                    /\ e.msg.src = A /\ e.msg.dst = B
                    /\ IF Len(last.pre.events) < LogCap
                       THEN events = Append(last.pre.events, e)
                       ELSE events = Append(Tail(last.pre.events), e)

\* the pile scenario ran on a log that already held 300 entries
C9_Witness ==
    /\ \E A, B \in UnitIds : PileScenario(A, B)
    /\ Len(last.pre.events) = LogCap

\* the second run agrees with the first on units and the turn counter
TwinAgrees ==
    /\ twin.g.units = units
    /\ twin.g.sim_turn = sim_turn
    /\ twin.g.paused = paused

SkippedUnit(u) == u.status # "Running" \/ ~HasRecipe(u)

\* C20: in a turn, the step of a unit that is not Running or has no recipe
\* changes nothing in any unit (no timer advance, no transfer, no craft) and
\* logs nothing; the unit's turn progress after the turn is the one before it
C20_SkippedUnits ==
    IsTurn =>
       \A id \in UnitIds :
          SkippedUnit(last.pre.units[id]) =>
             /\ \E st \in Steps : st.uid = id
             /\ \A st \in Steps :
                   st.uid = id =>
                      /\ st.branch \in {"not_running", "no_recipe"}
                      /\ st.post = st.pre
                      /\ st.out = <<>>
             /\ units[id].turn_progress = last.pre.units[id].turn_progress

\* a turn passed over a stalled unit that, if Running, would have reached its
\* recipe's duration and moved an item, and over a unit without a recipe
C20_Witness ==
    /\ IsTurn
    /\ \E st \in Steps :
          LET u == st.pre[st.uid]
          IN  /\ u.status # "Running"
              /\ HasRecipe(u)
              /\ TimerDone(sim_turn, u.recipe.duration_turns)
              /\ u.input_id \in UnitIds
              /\ u.output_id \in UnitIds
              /\ choose_transfer_item(st.pre[u.input_id].inventory,
                                      u.recipe.transfer_resource) # None
    /\ \E st \in Steps : st.pre[st.uid].status = "Running" /\ ~HasRecipe(st.pre[st.uid])

\* C15: the log never holds more than LogCap entries and always equals the
\* last LogCap entries ever logged, in the order they were logged
C15_LogBounded ==
    /\ Len(events) <= LogCap
    /\ events = LastN(logged, LogCap)

\* a turn logged onto a full log: entries of the run itself pushed out older ones
C15_Witness ==
    /\ last.op = "tick_turn"
    /\ last.out # <<>>
    /\ Len(last.pre.events) = LogCap
    /\ Len(logged) > LogCap + 1

IsCommand == last.op \in {"pause", "resume", "toggle_pause"}

\* C16: a pause command leaves sim_turn, every unit and the project tree as
\* they were, appends exactly one entry to the log (evicting the oldest of a
\* full log), and sets the flag: true for pause, false for resume, negated for
\* toggle_pause
C16_PauseCommands ==
    IsCommand =>
       /\ units = last.pre.units
       /\ unit_keys = last.pre.unit_keys
       /\ sim_turn = last.pre.sim_turn
       /\ projects = last.pre.projects
       /\ events = LastN(Append(last.pre.events, events[Len(events)]), LogCap)
       /\ events[Len(events)].msg.kind \in {"Simulation paused.", "Simulation resumed."}
       /\ last.op = "pause" => paused
       /\ last.op = "resume" => ~paused
       /\ last.op = "toggle_pause" => paused = ~last.pre.paused

\* resume has just ended a pause made after a turn, with items in stock
C16_Witness ==
    /\ last.op = "resume"
    /\ last.pre.paused
    /\ sim_turn >= 1
    /\ \E id \in UnitIds : \E r \in Resources : Qty(units, id, r) > 0

\* C17: once a pause has been ended, the turn counter is the one before the
\* pause plus the tick_turn calls made since the resume (none is made up for
\* the calls during the pause), and right after the resume the units, the
\* turn counter and the project tree are those before the pause
C17_PausedTurnsDropped ==
    pause_mark.phase = "resumed" =>
       /\ sim_turn = pause_mark.pre.sim_turn + pause_mark.after
       /\ pause_mark.after = 0 => Snapshot(GState) = pause_mark.pre

\* resume after two tick_turn calls during a pause, in a state where a turn
\* changes some unit
C17_Witness ==
    /\ last.op = "resume"
    /\ pause_mark.phase = "resumed"
    /\ pause_mark.k >= 2
    /\ pause_mark.after = 0
    /\ tick_turn(GState, now).units # units

RECURSIVE TotalQty(_, _, _)
\* the quantity of resource r held by the units ids, added up
TotalQty(us, ids, r) ==
    IF ids = {}
    THEN 0
    ELSE LET id == CHOOSE x \in ids : TRUE
         IN  Qty(us, id, r) + TotalQty(us, ids \ {id}, r)

\* C18: the summary gives, for every resource, the sum of its quantity over
\* all units; it has one entry per resource that some unit's inventory has an
\* entry for, and no other entry
C18_Summary ==
    last.op = "all_inventories_summary" =>
       /\ \A r \in Resources : DictGet(last.ret, r, 0) = TotalQty(units, UnitIds, r)
       /\ DictKeys(last.ret) = UNION {DictKeys(units[id].inventory) : id \in UnitIds}
       /\ \A i, j \in DOMAIN last.ret : last.ret[i].k = last.ret[j].k => i = j

\* a summary taken after a turn, of a resource that two units hold and of a
\* resource that no unit has
C18_Witness ==
    /\ last.op = "all_inventories_summary"
    /\ sim_turn >= 1
    /\ \E r \in Resources : \E id1, id2 \in UnitIds :
          /\ id1 # id2
          /\ Qty(units, id1, r) > 0
          /\ Qty(units, id2, r) > 0
          /\ DictGet(last.ret, r, 0) = Qty(units, id1, r) + Qty(units, id2, r)
    /\ \E r \in Resources : r \notin DictKeys(last.ret)

\* a link is set when the loader's truth test passes: neither None nor ""
SetLinks(u) == {l \in {u.input_id, u.output_id} : Truthy(l)}

\* some entry of the configuration has a set link to an id that no entry has
HasDanglingLink(cfg) ==
    \E i \in DOMAIN cfg : \E l \in SetLinks(cfg[i]) : l \notin {cfg[j].id : j \in DOMAIN cfg}

\* C19: load_units fails and leaves no GameState whenever an entry of the
\* configuration has a set link to an id that is not registered; when it
\* succeeds the registry holds the configured units and every set link of
\* every unit is a key of the registry
C19_DanglingLinksRejected ==
    last.op = "load_units" =>
       /\ HasDanglingLink(config.data) =>
             /\ ~last.ok
             /\ units = <<>>
             /\ events = <<>>
       /\ last.ok =>
             /\ DOMAIN units = {config.data[i].id : i \in DOMAIN config.data}
             /\ \A id \in DOMAIN units : SetLinks(units[id]) \subseteq DOMAIN units

\* load_units has rejected a configuration whose only fault is the output
\* link of its last unit: recipes are known and every input link resolves
C19_Witness ==
    /\ last.op = "load_units"
    /\ ~last.ok
    /\ Len(config.data) = MaxCfgUnits
    /\ \A i \in DOMAIN config.data :
          /\ UnitError(config.data[i], RecipeBook, Resources) = None
          /\ config.data[i].input_id \in {config.data[j].id : j \in DOMAIN config.data}
          /\ i < Len(config.data) =>
                config.data[i].output_id \in {config.data[j].id : j \in DOMAIN config.data}
    /\ config.data[Len(config.data)].output_id = "zz"

\* the goal rule on the task flags: no required task, or all of them completed
GoalRule(g) ==
    LET req == {k \in DOMAIN g.tasks : g.tasks[k].required}
    IN  req = {} \/ \A k \in req : g.tasks[k].completed

\* the project rule on the task flags, through the goal rule
ProjectRule(p) ==
    LET req == {j \in DOMAIN p.goals : p.goals[j].required}
    IN  req = {} \/ \A j \in req : GoalRule(p.goals[j])

Installed == config.kind = "installed"

IsToggle == last.op = "toggle_task"

\* the tasks of the tree ps that the path of the last toggle_task names
Addressed(ps) ==
    {h \in TaskPaths(ps) :
        /\ ps[h[1]].id = last.arg.project_id
        /\ ps[h[1]].goals[h[2]].id = last.arg.goal_id
        /\ ps[h[1]].goals[h[2]].tasks[h[3]].id = last.arg.task_id}

\* the derived flags of the tree ps: of every goal, and of every project
GoalFlags(ps) == [i \in DOMAIN ps |-> [j \in DOMAIN ps[i].goals |-> ps[i].goals[j].completed]]
ProjectFlags(ps) == [i \in DOMAIN ps |-> ps[i].completed]

\* C11: once the tree is installed, and after every toggle_task, each goal is
\* flagged completed exactly when it has no required task or all its required
\* tasks are completed
C11_GoalCompletion ==
    Installed =>
       \A i \in DOMAIN projects : \A j \in DOMAIN projects[i].goals :
          projects[i].goals[j].completed <=> GoalRule(projects[i].goals[j])

\* the second toggle_task of a run has changed the flag of a goal that also
\* has an optional task
C11_Witness ==
    /\ IsToggle
    /\ ncalls = 2
    /\ \E h \in Addressed(projects) :
          /\ GoalFlags(projects)[h[1]][h[2]] # GoalFlags(last.pre.projects)[h[1]][h[2]]
          /\ \E k \in DOMAIN projects[h[1]].goals[h[2]].tasks :
                ~projects[h[1]].goals[h[2]].tasks[k].required

\* C12: after every toggle_task each project is flagged completed exactly when
\* it has no required goal or every required goal satisfies the goal rule on
\* the task flags of that state
C12_ProjectCompletion ==
    Installed =>
       \A i \in DOMAIN projects : projects[i].completed <=> ProjectRule(projects[i])

\* a toggle_task has changed the flag of a project through one of its goals,
\* while the project also has an optional goal that is not complete
C12_Witness ==
    /\ IsToggle
    /\ \E h \in Addressed(projects) :
          /\ ProjectFlags(projects)[h[1]] # ProjectFlags(last.pre.projects)[h[1]]
          /\ GoalFlags(projects)[h[1]][h[2]] # GoalFlags(last.pre.projects)[h[1]][h[2]]
          /\ \E j \in DOMAIN projects[h[1]].goals :
                ~projects[h[1]].goals[j].required /\ ~projects[h[1]].goals[j].completed

\* C13: a toggle_task whose path names a task that is not required leaves the
\* completed flag of every goal and of every project as it was
C13_OptionalToggle ==
    IsToggle =>
       \A h \in Addressed(last.pre.projects) :
          ~TaskAt(last.pre.projects, h).required =>
             /\ GoalFlags(projects) = GoalFlags(last.pre.projects)
             /\ ProjectFlags(projects) = ProjectFlags(last.pre.projects)

\* an optional task has been completed in a goal that a required task keeps
\* incomplete
C13_Witness ==
    /\ IsToggle
    /\ \E h \in Addressed(last.pre.projects) :
          /\ ~TaskAt(last.pre.projects, h).required
          /\ TaskAt(projects, h).completed
          /\ ~TaskAt(last.pre.projects, h).completed
          /\ ~projects[h[1]].goals[h[2]].completed

\* C14: a toggle_task whose path names no task leaves every task, goal and
\* project flag as it was and appends exactly one entry, a Task not found
\* entry, to the log
C14_UnknownPath ==
    (IsToggle /\ Addressed(last.pre.projects) = {}) =>
       /\ projects = last.pre.projects
       /\ events = LastN(Append(last.pre.events, events[Len(events)]), LogCap)
       /\ events[Len(events)].msg.kind = "Task not found"
       /\ Len(last.out) = 1

\* the path named a project and a goal of the tree but no task of that goal,
\* after an earlier toggle_task had completed a task
C14_Witness ==
    /\ IsToggle
    /\ ncalls = 2
    /\ Addressed(last.pre.projects) = {}
    /\ \E i \in DOMAIN projects : \E j \in DOMAIN projects[i].goals :
          /\ projects[i].id = last.arg.project_id
          /\ projects[i].goals[j].id = last.arg.goal_id
          /\ \E k \in DOMAIN projects[i].goals[j].tasks :
                projects[i].goals[j].tasks[k].completed
    /\ \E e \in Range(last.pre.events) : e.msg.kind = "Task completed"

\* the state g with every recipe duration below 1 replaced by 1
WithDurationOne(g) ==
    [g EXCEPT !.units = [id \in DOMAIN g.units |->
        [g.units[id] EXCEPT !.recipe.duration_turns = IF @ < 1 THEN 1 ELSE @]]]

\* C21: a running unit whose recipe has duration 0 or less never waits: on
\* every unpaused turn it reaches its action and its progress is 0 again; and
\* the turn leaves the units and the log exactly as it leaves them when those
\* durations are 1
C21_ZeroDuration ==
    IsTurn =>
       /\ \A st \in Steps :
             LET u == st.pre[st.uid]
             IN  (~SkippedUnit(u) /\ u.recipe.duration_turns < 1) =>
                    /\ st.branch \notin {"waiting", "not_running", "no_recipe"}
                    /\ st.post[st.uid].turn_progress = 0
       /\ \E r \in {tick_turn(WithDurationOne(last.pre), now)} :
             /\ r.units = WithDurationOne(GState).units
             /\ r.events = events
             /\ r.sim_turn = sim_turn

\* on the second turn in a row a pile of duration 0 and a pile of duration -1
\* have each moved an item
C21_Witness ==
    /\ IsTurn
    /\ sim_turn >= 2
    /\ \E st \in Steps :
          /\ st.pre[st.uid].recipe.duration_turns = 0
          /\ st.branch = "pile"
          /\ st.out # <<>>
    /\ \E st \in Steps :
          /\ st.pre[st.uid].recipe.duration_turns < 0
          /\ st.branch = "pile"
          /\ st.out # <<>>

\* the position of an id in the string order of the ids
IdRank(id) == CHOOSE i \in DOMAIN IdOrder : IdOrder[i] = id

\* everything the unit src holds, over all resources
Holding(us, src) == TotalQty(us, {src}, "Wood") + TotalQty(us, {src}, "Iron")
                       + TotalQty(us, {src}, "Steel")

\* steps first and second are transfers that came due in this turn, draw from
\* the same unit, which held one item when the turn began and was touched by
\* nothing but the first before the second ran
Race(first, second) ==
    /\ first.branch \in {"transfer", "pile"}
    /\ second.branch \in {"transfer", "pile"}
    /\ StepSrc(first) \in UnitIds
    /\ StepSrc(first) = StepSrc(second)
    /\ StepDst(first) \in UnitIds \ {StepSrc(first)}
    /\ StepDst(second) \in UnitIds
    /\ Holding(last.pre.units, StepSrc(first)) = 1
    /\ first.pre[StepSrc(first)] = last.pre.units[StepSrc(first)]
    /\ second.pre[StepSrc(first)] = first.post[StepSrc(first)]

\* C22: a turn visits every unit of the registry once, in ascending order of
\* id whatever the insertion order; of two transfers racing for the single
\* item of a source the one of the smaller id moves it and the other moves
\* nothing
C22_AscendingOrder ==
    IsTurn =>
       /\ {last.steps[i].uid : i \in DOMAIN last.steps} = Range(unit_keys)
       /\ \A i, j \in DOMAIN last.steps :
             i < j => IdRank(last.steps[i].uid) < IdRank(last.steps[j].uid)
       /\ \A first, second \in Steps :
             (IdRank(first.uid) < IdRank(second.uid) /\ Race(first, second)) =>
                /\ \E r \in Resources :
                      StepMovedOne(first, StepSrc(first), StepDst(first), r)
                /\ StepKeepsInventories(second)
                /\ second.out = <<>>

\* two drones raced for the last item of a stockpile in a registry whose
\* insertion order puts the larger id first
C22_Witness ==
    /\ IsTurn
    /\ \E first, second \in Steps :
          /\ IdRank(first.uid) < IdRank(second.uid)
          /\ Race(first, second)
          /\ \E m, n \in DOMAIN unit_keys :
                m < n /\ unit_keys[m] = second.uid /\ unit_keys[n] = first.uid

\* the unit of step st is running, has a recipe, and its timer completes in
\* this step
ComesDue(st) ==
    LET u == st.pre[st.uid]
    IN  /\ ~SkippedUnit(u)
        /\ TimerDone(u.turn_progress + 1, u.recipe.duration_turns)

\* the unit of step st has no input link and an output link to another,
\* registered unit, and holds at least one item
EmitsFromOwnStock(st) ==
    LET u == st.pre[st.uid]
    IN  /\ ~Truthy(u.input_id)
        /\ u.output_id \in UnitIds \ {st.uid}
        /\ \E r \in Resources : Qty(st.pre, st.uid, r) > 0

\* C23: when the timer of a ResourcePile with no input link and a resolving
\* output link completes and the pile holds something, exactly one item leaves
\* the pile's own inventory and arrives in the inventory of the output unit
C23_PileIsSource ==
    IsTurn =>
       \A st \in Steps :
          (ComesDue(st) /\ EmitsFromOwnStock(st)
             /\ st.pre[st.uid].kind = "ResourcePile") =>
             \E r \in Resources :
                StepMovedOne(st, st.uid, st.pre[st.uid].output_id, r)

\* a pile holding two resources has sent one item to an output unit that
\* held items of its own
C23_Witness ==
    /\ IsTurn
    /\ \E st \in Steps :
          /\ ComesDue(st)
          /\ EmitsFromOwnStock(st)
          /\ st.pre[st.uid].kind = "ResourcePile"
          /\ Cardinality({r \in Resources : Qty(st.pre, st.uid, r) > 0}) = 2
          /\ \E r \in Resources : Qty(st.pre, st.pre[st.uid].output_id, r) > 0

\* a recipe that moves items instead of crafting: it lacks inputs or outputs
IsTransferRecipe(rc) == rc.inputs = <<>> \/ rc.outputs = <<>>

\* C24 as stated: a unit with no input link and an output link, bound to a
\* transfer recipe, sends one item of its own stock to its output unit when its
\* timer completes, whatever its kind
C24_Original ==
    IsTurn =>
       \A st \in Steps :
          (ComesDue(st) /\ EmitsFromOwnStock(st)
             /\ IsTransferRecipe(st.pre[st.uid].recipe)) =>
             \E r \in Resources :
                StepMovedOne(st, st.uid, st.pre[st.uid].output_id, r)

\* C24 amended: a unit with no input link and an output link, bound to a
\* transfer recipe, sends one item of its own stock to its output unit when its
\* timer completes only if its kind is "ResourcePile"; for any other kind the
\* timer resets and nothing else happens: no inventory changes, nothing is logged
C24_Amended ==
    IsTurn =>
       \A st \in Steps :
          (ComesDue(st) /\ EmitsFromOwnStock(st)
             /\ IsTransferRecipe(st.pre[st.uid].recipe)) =>
             IF st.pre[st.uid].kind = "ResourcePile"
             THEN \E r \in Resources :
                     StepMovedOne(st, st.uid, st.pre[st.uid].output_id, r)
             ELSE /\ StepKeepsInventories(st)
                  /\ st.out = <<>>
                  /\ st.post[st.uid].turn_progress = 0
                  /\ st.branch = "idle"

\* one turn held both cases: a stocked Stockpile with only an output link came
\* due and stayed idle, and a stocked ResourcePile came due and sent an item
C24_Witness ==
    /\ IsTurn
    /\ \E st \in Steps :
          /\ ComesDue(st) /\ EmitsFromOwnStock(st)
          /\ IsTransferRecipe(st.pre[st.uid].recipe)
          /\ st.pre[st.uid].kind = "Stockpile"
          /\ st.branch = "idle"
    /\ \E st \in Steps :
          /\ ComesDue(st) /\ EmitsFromOwnStock(st)
          /\ st.pre[st.uid].kind = "ResourcePile"
          /\ st.out # <<>>

\* the transfer of step st cannot happen: its source or its destination is not
\* a registered unit, or its source holds nothing
CannotTransfer(st) ==
    \/ StepSrc(st) \notin UnitIds
    \/ StepDst(st) \notin UnitIds
    \/ \A r \in Resources : Qty(st.pre, StepSrc(st), r) <= 0

\* C25: a transfer whose source or destination link resolves to no registered
\* unit, or whose source holds no resource in positive quantity, is abandoned
\* silently: no inventory changes and the step logs nothing
C25_SilentAbandon ==
    IsTurn =>
       /\ \A st \in TransferSteps :
             CannotTransfer(st) =>
                /\ StepKeepsInventories(st)
                /\ \A id \in UnitIds : st.post[id].inventory = st.pre[id].inventory
                /\ st.out = <<>>
       /\ (\A st \in Steps : st.branch \in {"transfer", "pile"} /\ CannotTransfer(st)) =>
             events = last.pre.events

\* one turn abandoned three transfers: one with a stocked source and an
\* unregistered destination, one with an unregistered source, one with an
\* empty source
C25_Witness ==
    /\ IsTurn
    /\ \E st \in TransferSteps :
          /\ StepDst(st) \notin UnitIds
          /\ StepSrc(st) \in UnitIds
          /\ \E r \in Resources : Qty(st.pre, StepSrc(st), r) > 0
    /\ \E st \in TransferSteps : StepSrc(st) \notin UnitIds /\ StepDst(st) \in UnitIds
    /\ \E st \in TransferSteps :
          /\ StepSrc(st) \in UnitIds
          /\ StepDst(st) \in UnitIds
          /\ \A r \in Resources : Qty(st.pre, StepSrc(st), r) = 0

\* the first resource with a positive quantity in the insertion order of inv,
\* None when there is none
FirstPositive(inv) ==
    IF \A i \in DOMAIN inv : inv[i].v <= 0
    THEN None
    ELSE inv[CHOOSE i \in DOMAIN inv :
                 inv[i].v > 0 /\ \A j \in 1..(i - 1) : inv[j].v <= 0].k

\* the resource a transfer step has to move: the recipe's transfer_resource
\* when the source holds it, otherwise the first positive entry of the source
DueItem(st) ==
    LET locked == st.pre[st.uid].recipe.transfer_resource
    IN  IF locked \in Resources /\ Qty(st.pre, StepSrc(st), locked) > 0
        THEN locked
        ELSE FirstPositive(st.pre[StepSrc(st)].inventory)

\* C26: a transfer moves the recipe's transfer_resource whenever the source
\* holds a positive quantity of it, otherwise the first resource with positive
\* quantity in the insertion order of the source inventory; the resource moved
\* is never one the source holds 0 of
C26_ItemChoice ==
    IsTurn =>
       \A st \in TransferSteps :
          ~CannotTransfer(st) =>
             /\ Len(st.out) = 1
             /\ st.out[1].item = DueItem(st)
             /\ Qty(st.pre, StepSrc(st), st.out[1].item) > 0
             /\ StepSrc(st) # StepDst(st) =>
                   StepMovedOne(st, StepSrc(st), StepDst(st), st.out[1].item)

\* from a source whose first entry has quantity 0, one drone took the first
\* positive entry and a locked drone took its transfer_resource, which was
\* listed after another positive entry
C26_Witness ==
    /\ IsTurn
    /\ \E st \in TransferSteps :
          /\ ~CannotTransfer(st)
          /\ st.pre[st.uid].recipe.transfer_resource = None
          /\ st.pre[StepSrc(st)].inventory[1].v = 0
          /\ st.out[1].item = st.pre[StepSrc(st)].inventory[2].k
    /\ \E st \in TransferSteps :
          /\ ~CannotTransfer(st)
          /\ st.pre[st.uid].recipe.transfer_resource = "Steel"
          /\ st.out[1].item = "Steel"
          /\ FirstPositive(st.pre[StepSrc(st)].inventory) = "Iron"

\* C27: a craft action changes only the crafting unit's own inventory: the
\* outputs are added to that unit, and no other unit, in particular not the
\* unit named by its output_id, changes
C27_CraftStaysHome ==
    IsTurn =>
       \A st \in CraftSteps :
          LET rc == st.pre[st.uid].recipe
          IN  /\ \A id \in UnitIds \ {st.uid} : st.post[id] = st.pre[id]
              /\ st.out # <<>> =>
                    \A i \in DOMAIN rc.outputs :
                       Qty(st.post, st.uid, rc.outputs[i].k)
                          = Qty(st.pre, st.uid, rc.outputs[i].k) + rc.outputs[i].v
                               - DictGet(rc.inputs, rc.outputs[i].k, 0)

\* a factory with an output link to another unit completed a craft and holds
\* the product itself
C27_Witness ==
    /\ IsTurn
    /\ \E st \in CraftSteps :
          /\ st.out # <<>>
          /\ st.pre[st.uid].output_id \in UnitIds \ {st.uid}
          /\ \E x \in Resources : Qty(st.post, st.uid, x) > Qty(st.pre, st.uid, x)

\* the unit of step st is in craft position (neither the drone nor the pile
\* branch applies) with a recipe that has inputs, all of them in stock, and
\* no outputs
BurnsInputs(st) ==
    LET u == st.pre[st.uid]
    IN  /\ ~(Truthy(u.input_id) /\ Truthy(u.output_id))
        /\ ~(u.kind = "ResourcePile" /\ u.output_id # None)
        /\ u.recipe.inputs # <<>>
        /\ u.recipe.outputs = <<>>
        /\ \A i \in DOMAIN u.recipe.inputs :
              Qty(st.pre, st.uid, u.recipe.inputs[i].k) >= u.recipe.inputs[i].v

\* C28: a craft recipe whose inputs are satisfiable and whose outputs mapping
\* is empty still completes when its timer does: every input is consumed from
\* the unit's inventory and exactly one log entry is emitted, a craft report
\* with nothing produced
C28_EmptyOutputsCraft ==
    IsTurn =>
       \A st \in Steps :
          (ComesDue(st) /\ BurnsInputs(st)) =>
             LET rc == st.pre[st.uid].recipe
             IN  /\ \A i \in DOMAIN rc.inputs :
                       Qty(st.post, st.uid, rc.inputs[i].k)
                          = Qty(st.pre, st.uid, rc.inputs[i].k) - rc.inputs[i].v
                 /\ Len(st.out) = 1
                 /\ st.out[1].kind = "crafted"
                 /\ st.out[1].produced = <<>>

\* C29: in every reachable state no unit's inventory retains an entry whose
\* quantity is 0, and inv_get of a resource without a positive entry is 0
C29_NoZeroEntry ==
    \A id \in DOMAIN units :
       /\ \A i \in DOMAIN units[id].inventory : units[id].inventory[i].v # 0
       /\ \A r \in Resources :
             (\A i \in DOMAIN units[id].inventory :
                 units[id].inventory[i].k = r => units[id].inventory[i].v <= 0)
                => inv_get(units[id].inventory, r) = 0

\* the outcomes of one unit's visit in a turn
Branches == {"not_running", "no_recipe", "waiting", "transfer", "pile", "craft", "idle"}

\* C30: tick_turn never raises and runs to completion over all units: whatever
\* the registry holds (missing or dangling links, empty inventories,
\* unsatisfied recipes, link cycles), a call made while not paused ends
\* normally and visits every registered unit exactly once
C30_TurnCompletes ==
    IsTurn =>
       /\ last.ok
       /\ sim_turn = last.pre.sim_turn + 1
       /\ Len(last.steps) = Len(unit_keys)
       /\ \A id \in Range(unit_keys) :
             Cardinality({i \in DOMAIN last.steps : last.steps[i].uid = id}) = 1
       /\ \A st \in Steps : st.uid \in Range(unit_keys) /\ st.branch \in Branches

\* a turn completed over a link cycle a -> b -> a in which both piles sent an
\* item, with a third unit that was skipped or had nothing to do
C30_Witness ==
    /\ IsTurn
    /\ units["a"].output_id = "b"
    /\ units["b"].output_id = "a"
    /\ StepOf("a").out # <<>>
    /\ StepOf("b").out # <<>>
    /\ StepOf("c").out = <<>>

\* everything of a unit but its inventory and its timer
Wiring(u) ==
    [id |-> u.id, name |-> u.name, kind |-> u.kind, status |-> u.status,
     input_id |-> u.input_id, output_id |-> u.output_id, recipe |-> u.recipe]

\* C31: tick_turn never changes a unit's status, input_id, output_id or
\* recipe, nor the set of registered units: a Stalled unit stays Stalled and a
\* unit whose action is abandoned stays Running
C31_TurnKeepsWiring ==
    last.op = "tick_turn" =>
       /\ unit_keys = last.pre.unit_keys
       /\ DOMAIN units = DOMAIN last.pre.units
       /\ \A id \in DOMAIN units : Wiring(units[id]) = Wiring(last.pre.units[id])
       /\ \A st \in Steps :
             /\ DOMAIN st.post = DOMAIN st.pre
             /\ \A id \in DOMAIN st.pre : Wiring(st.post[id]) = Wiring(st.pre[id])

\* after two turns a unit is still Stalled and a pile that has had nothing to
\* send in either turn is still Running
C31_Witness ==
    /\ IsTurn
    /\ sim_turn >= 2
    /\ \E id \in UnitIds : units[id].status = "Stalled" /\ HasRecipe(units[id])
    /\ \E st \in TransferSteps :
          /\ st.branch = "pile"
          /\ CannotTransfer(st)
          /\ st.pre[st.uid].recipe.duration_turns = 1
          /\ units[st.uid].status = "Running"

\* the last operation was a toggle_task whose path named a task
IsFoundToggle == IsToggle /\ Addressed(last.pre.projects) # {}

\* C32: a toggle_task whose path resolves flips the completed flag of exactly
\* the addressed task, leaves every other task as it was, leaves goal and
\* project flags as the completion rules make them, and appends exactly one
\* log entry: "completed" when the new flag is true, "reopened" when false
C32_ToggleFrame ==
    IsFoundToggle =>
       /\ TaskPaths(projects) = TaskPaths(last.pre.projects)
       /\ \A h \in TaskPaths(projects) :
             IF h \in Addressed(last.pre.projects)
             THEN /\ TaskAt(projects, h).completed = ~TaskAt(last.pre.projects, h).completed
                  /\ [TaskAt(projects, h) EXCEPT !.completed = ~@]
                        = TaskAt(last.pre.projects, h)
                  /\ last.out[1].kind = IF TaskAt(projects, h).completed
                                         THEN "Task completed" ELSE "Task reopened"
                  /\ last.out[1].unit = TaskAt(projects, h).name
             ELSE TaskAt(projects, h) = TaskAt(last.pre.projects, h)
       /\ Cardinality(Addressed(last.pre.projects)) = 1
       /\ \A i \in DOMAIN projects :
             /\ projects[i].completed <=> ProjectRule(projects[i])
             /\ \A j \in DOMAIN projects[i].goals :
                   projects[i].goals[j].completed <=> GoalRule(projects[i].goals[j])
       /\ Len(last.out) = 1
       /\ events = LastN(Append(last.pre.events, events[Len(events)]), LogCap)
       /\ events[Len(events)].msg = last.out[1]

\* a second toggle_task reopened the task the first had completed, in a goal
\* with another task, and the goal's flag changed with it
C32_Witness ==
    /\ IsFoundToggle
    /\ ncalls = 2
    /\ last.out[1].kind = "Task reopened"
    /\ \E e \in Range(last.pre.events) : e.msg.kind = "Task completed"
    /\ \E h \in Addressed(projects) :
          /\ Len(projects[h[1]].goals[h[2]].tasks) = 2
          /\ GoalFlags(projects)[h[1]][h[2]] # GoalFlags(last.pre.projects)[h[1]][h[2]]

\* the operations the command handlers perform
HandlerOps == {"pause", "resume", "toggle_pause", "toggle_task"}

\* C33: in main's loop the command handlers run only between tick_turn calls:
\* no handler has acted while a turn is under way, the paused flag and the
\* project tree stay as they were through a turn, every completed turn leaves
\* exactly what one uninterrupted tick_turn makes of the state it started
\* from, and a frame is drawn only when every turn that fell due has run
C33_TurnsUninterrupted ==
    /\ last.op \in HandlerOps => driver.pc # "in_turn"
    /\ driver.pc = "in_turn" =>
          /\ paused = driver.turn.pre.paused
          /\ projects = driver.turn.pre.projects
          /\ sim_turn = driver.turn.pre.sim_turn + 1
          /\ unit_keys = driver.turn.pre.unit_keys
    /\ driver.pc # "in_turn" => driver.turn = NoTurn
    /\ IsTurn =>
          \E r \in {tick_turn(last.pre, now)} :
             /\ units = r.units
             /\ events = r.events
             /\ sim_turn = r.sim_turn
             /\ last.steps = r.steps
             /\ paused = last.pre.paused
             /\ projects = last.pre.projects
    /\ driver.pc \in {"top", "exited"} => driver.turn_accum < TurnDt

\* the game was paused through the two turns due in the first frame; in the
\* second frame it was resumed and the second of two due turns has just moved
\* an item
C33_Witness ==
    /\ IsTurn
    /\ driver.frames = 2
    /\ driver.done = 2
    /\ ncalls = 2
    /\ last.out # <<>>
    /\ last.pre.sim_turn = 1
    /\ \E e \in Range(events) : e.msg.kind = "Simulation resumed."

\* C34: every unit's turn progress p satisfies 0 <= p < max(1, duration_turns)
\* of its recipe, and p = 0 without a recipe; a unit attempts its action only
\* on the turn that completes a full duration, and its timer is 0 after the
\* attempt even when the action was abandoned
C34_TimerRange ==
    /\ \A id \in UnitIds :
          /\ 0 <= units[id].turn_progress
          /\ IF HasRecipe(units[id])
             THEN units[id].turn_progress < Max(1, units[id].recipe.duration_turns)
             ELSE units[id].turn_progress = 0
    /\ IsTurn =>
          \A st \in Steps :
             LET u == st.pre[st.uid]
             IN  st.branch \in {"transfer", "pile", "craft", "idle"} =>
                    /\ u.turn_progress = Max(1, u.recipe.duration_turns) - 1
                    /\ st.post[st.uid].turn_progress = 0

\* a transfer of duration 2 has been abandoned on the fourth turn, with the
\* timer at 1 before the attempt and at 0 after it
C34_Witness ==
    /\ IsTurn
    /\ sim_turn = 4
    /\ \E st \in TransferSteps :
          /\ CannotTransfer(st)
          /\ st.pre[st.uid].recipe.duration_turns = 2
          /\ st.pre[st.uid].turn_progress = 1
          /\ units[st.uid].turn_progress = 0

\* the total of every resource is the same in the registries us and vs
SameTotals(us, vs) ==
    \A r \in Resources : TotalQty(us, UnitIds, r) = TotalQty(vs, UnitIds, r)

\* C35: the total of every resource over all units is unchanged by every
\* step of a turn that is not a completed craft, and so by every turn in
\* which no craft completes, whatever the links: cycles and a unit that is
\* its own source and destination included
C35_TotalsConserved ==
    IsTurn =>
       /\ \A st \in Steps :
             (st.branch # "craft" \/ st.out = <<>>) => SameTotals(st.post, st.pre)
       /\ (\A st \in CraftSteps : st.out = <<>>) =>
             /\ SameTotals(units, last.pre.units)
             /\ \A r \in Resources :
                   DictGet(all_inventories_summary(GState), r, 0)
                      = DictGet(all_inventories_summary(last.pre), r, 0)

\* in one turn a drone moved an item from a unit to that same unit, and a
\* pile sent an item to it
C35_Witness ==
    /\ IsTurn
    /\ CraftSteps = {}
    /\ \E st \in TransferSteps :
          StepSrc(st) = StepDst(st) /\ StepSrc(st) \in UnitIds /\ st.out # <<>>
    /\ \E st \in TransferSteps :
          StepSrc(st) # StepDst(st) /\ st.out # <<>>

\* step d delivered an item to the unit that step m draws from, which held
\* nothing when the turn began
Hop(d, m) ==
    /\ d.branch \in {"transfer", "pile"}
    /\ m.branch \in {"transfer", "pile"}
    /\ d.uid # m.uid
    /\ StepDst(d) \in UnitIds \ {StepSrc(d)}
    /\ StepSrc(m) = StepDst(d)
    /\ StepDst(m) \in UnitIds \ {StepSrc(m)}
    /\ d.out # <<>>
    /\ Holding(last.pre.units, StepSrc(m)) = 0

\* no unit whose id lies strictly between lo and hi in id order has changed
\* the inventory of the unit id in its step (lo = 0: from the first id on)
Untouched(id, lo, hi) ==
    \A k \in Steps :
       (lo < IdRank(k.uid) /\ IdRank(k.uid) < hi) =>
          k.post[id].inventory = k.pre[id].inventory

\* C36: within a turn each unit acts on the inventories as the units before
\* it in id order left them.  When a unit delivers an item to the empty source
\* of a transfer unit with a larger id, that unit moves the item on in the same
\* turn; when the deliverer has the larger id, the other unit finds its source
\* empty and moves nothing in that turn: the item advances one hop
C36_SameTurnVisibility ==
    IsTurn =>
       /\ \A i \in DOMAIN last.steps :
             last.steps[i].pre = IF i = 1 THEN last.pre.units ELSE last.steps[i - 1].post
       /\ last.steps # <<>> => units = last.steps[Len(last.steps)].post
       /\ \A d, m \in Steps :
             Hop(d, m) =>
                IF IdRank(d.uid) < IdRank(m.uid)
                THEN Untouched(StepSrc(m), IdRank(d.uid), IdRank(m.uid)) =>
                        /\ m.out # <<>>
                        /\ m.out[1].item = d.out[1].item
                        /\ StepMovedOne(m, StepSrc(m), StepDst(m), d.out[1].item)
                ELSE Untouched(StepSrc(m), 0, IdRank(m.uid)) =>
                        /\ m.out = <<>>
                        /\ StepKeepsInventories(m)
                        /\ Qty(d.post, StepSrc(m), d.out[1].item) = 1

\* the ring of piles after its second turn: the one item, which the first
\* turn had taken a single hop from c to a, went from a to b, on to c and on to
\* a within this turn
C36_Witness ==
    /\ IsTurn
    /\ sim_turn = 2
    /\ Holding(last.pre.units, "a") = 1
    /\ Holding(last.pre.units, "b") = 0
    /\ Holding(last.pre.units, "c") = 0
    /\ Hop(StepOf("a"), StepOf("b"))
    /\ Hop(StepOf("b"), StepOf("c"))
    /\ StepOf("b").out # <<>>
    /\ StepOf("c").out # <<>>
    /\ Holding(units, "a") = 1

\* the kinds of the messages a step logged
StepKinds(st) == {st.out[i].kind : i \in DOMAIN st.out}

\* the unit of step st has both links set
BothLinks(st) == Truthy(st.pre[st.uid].input_id) /\ Truthy(st.pre[st.uid].output_id)

\* the unit of step st is a pile with an output link
PileOut(st) == st.pre[st.uid].kind = "ResourcePile" /\ st.pre[st.uid].output_id # None

\* the recipe of the unit of step st has inputs and outputs
CraftRecipe(st) ==
    st.pre[st.uid].recipe.inputs # <<>> /\ st.pre[st.uid].recipe.outputs # <<>>

\* C37: the links decide before the recipe content.  A running unit with both
\* input_id and output_id set performs the transfer when its timer completes
\* and never crafts, even with a recipe that has inputs and outputs; a craft
\* is performed only by a unit that took neither transfer branch and whose
\* recipe has both inputs and outputs
C37_LinksBeforeRecipe ==
    IsTurn =>
       \A st \in Steps :
          /\ (ComesDue(st) /\ BothLinks(st)) =>
                /\ st.branch = "transfer"
                /\ "crafted" \notin StepKinds(st)
                /\ IF CannotTransfer(st)
                   THEN StepKeepsInventories(st) /\ st.out = <<>>
                   ELSE /\ StepKinds(st) = {"moved"}
                        /\ StepSrc(st) # StepDst(st) =>
                              StepMovedOne(st, StepSrc(st), StepDst(st), st.out[1].item)
          /\ (st.branch = "craft" \/ "crafted" \in StepKinds(st)) =>
                ComesDue(st) /\ ~BothLinks(st) /\ ~PileOut(st) /\ CraftRecipe(st)
          /\ (ComesDue(st) /\ ~BothLinks(st) /\ ~PileOut(st) /\ CraftRecipe(st)) =>
                st.branch = "craft"

\* a factory with both links and a craft recipe whose inputs it holds moved
\* an item from its input unit to its output unit and kept its own stock
C37_Witness ==
    /\ IsTurn
    /\ \E st \in Steps :
          /\ ComesDue(st)
          /\ BothLinks(st)
          /\ CraftRecipe(st)
          /\ InputsAvailable(st.pre[st.uid].inventory, st.pre[st.uid].recipe.inputs)
          /\ st.uid \notin {StepSrc(st), StepDst(st)}
          /\ StepKinds(st) = {"moved"}
          /\ st.post[st.uid].inventory = st.pre[st.uid].inventory

\* toggle_task applied once more, with the path of the last call, to the
\* state that call left
ToggledAgain ==
    toggle_task([projects |-> projects, events |-> events, out |-> <<>>],
                last.arg.project_id, last.arg.goal_id, last.arg.task_id, now)

\* C38: toggle_task applied a second time to the same resolvable path gives
\* back the tree as it was before the first call, every task, goal and project
\* flag included; the log has the entries of the two calls appended
C38_ToggleTwice ==
    IsFoundToggle =>
       \E r \in {ToggledAgain} :
          /\ r.projects = last.pre.projects
          /\ Len(r.out) = 1
          /\ r.out[1].kind \in {"Task completed", "Task reopened"}
          /\ r.out[1].kind # last.out[1].kind
          /\ r.events
                = LastN(last.pre.events
                           \o Stamped(last.out, now) \o Stamped(r.out, now), LogCap)

\* the toggle_task just made completed a required task and with it its goal
\* and its project, so the second call has all three flags to give back
C38_Witness ==
    /\ IsFoundToggle
    /\ \E h \in Addressed(projects) :
          /\ TaskAt(projects, h).completed
          /\ GoalFlags(projects)[h[1]][h[2]]
          /\ ~GoalFlags(last.pre.projects)[h[1]][h[2]]
          /\ ProjectFlags(projects)[h[1]]
          /\ ~ProjectFlags(last.pre.projects)[h[1]]
    /\ ToggledAgain.projects = last.pre.projects

=============================================================================
